---- MODULE Spec2Model ----
(***************************************************************************)
(* Radom CRM (src/app.py): contact identity resolution and deduplication.  *)
(*                                                                         *)
(* Text is modelled as a sequence of one-character strings, so that the    *)
(* normalisers (strip, lower-case, whitespace collapse, suffix removal,    *)
(* URL cleaning) are computed character by character as the code does.     *)
(* SQL NULL / Python None of a text column is the empty sequence: every    *)
(* write of the program stores `value.strip() or None`, so a stored text   *)
(* is never the empty string and the two cannot be confused.               *)
(***************************************************************************)
EXTENDS Integers, Sequences, FiniteSets, TLC

\* ------------------------------------------------------------------------
\* Text helpers (Python str methods used by the normalisers)
\* ------------------------------------------------------------------------
EMPTY == <<>>

UpperLetters ==
    <<"A","B","C","D","E","F","G","H","I","J","K","L","M",
      "N","O","P","Q","R","S","T","U","V","W","X","Y","Z">>

LowerLetters ==
    <<"a","b","c","d","e","f","g","h","i","j","k","l","m",
      "n","o","p","q","r","s","t","u","v","w","x","y","z">>

Digits == {"0","1","2","3","4","5","6","7","8","9"}

\* str.isspace() for the characters of the model's alphabet
IsSpace(c) == c \in {" ", "\n", "\t", "\r"}

\* str.lower() on one character
LowerChar(c) ==
    IF \E i \in 1..26 : UpperLetters[i] = c
    THEN LowerLetters[CHOOSE i \in 1..26 : UpperLetters[i] = c]
    ELSE c

\* str.lower()
Lower(s) == [i \in 1..Len(s) |-> LowerChar(s[i])]

RECURSIVE LStrip(_)
\* str.lstrip()
LStrip(s) ==
    IF s = EMPTY THEN EMPTY
    ELSE IF IsSpace(Head(s)) THEN LStrip(Tail(s)) ELSE s

RECURSIVE RStrip(_)
\* str.rstrip()
RStrip(s) ==
    IF s = EMPTY THEN EMPTY
    ELSE IF IsSpace(s[Len(s)]) THEN RStrip(SubSeq(s, 1, Len(s) - 1)) ELSE s

\* str.strip()
Strip(s) == RStrip(LStrip(s))

RECURSIVE LStripChar(_, _)
\* str.lstrip(ch)
LStripChar(s, ch) ==
    IF s = EMPTY THEN EMPTY
    ELSE IF Head(s) = ch THEN LStripChar(Tail(s), ch) ELSE s

RECURSIVE RStripChar(_, _)
\* str.rstrip(ch): removes EVERY trailing ch
RStripChar(s, ch) ==
    IF s = EMPTY THEN EMPTY
    ELSE IF s[Len(s)] = ch THEN RStripChar(SubSeq(s, 1, Len(s) - 1), ch) ELSE s

\* str.startswith(p)
StartsWith(s, p) == Len(s) >= Len(p) /\ SubSeq(s, 1, Len(p)) = p

\* ch in s
Contains(s, ch) == \E i \in 1..Len(s) : s[i] = ch

RECURSIVE CollapseWs(_)
\* re.sub(r"\s+", " ", s)
CollapseWs(s) ==
    IF s = EMPTY THEN EMPTY
    ELSE IF IsSpace(Head(s))
         THEN <<" ">> \o CollapseWs(LStrip(s))
         ELSE <<Head(s)>> \o CollapseWs(Tail(s))

RECURSIVE ReplaceChar(_, _, _)
\* s.replace(ch, by) for a one-character ch
ReplaceChar(s, ch, by) ==
    IF s = EMPTY THEN EMPTY
    ELSE (IF Head(s) = ch THEN by ELSE <<Head(s)>>) \o ReplaceChar(Tail(s), ch, by)

\* s with only the characters satisfying keep (re.sub of a negated class)
KeepChars(s, keep) == SelectSeq(s, LAMBDA c : c \in keep)

RECURSIVE Words(_)
\* the maximal runs of non-space characters of s, in order
Words(s) ==
    LET t == LStrip(s) IN
    IF t = EMPTY THEN <<>>
    ELSE LET n == IF \E i \in 1..Len(t) : IsSpace(t[i])
                  THEN (CHOOSE i \in 1..Len(t) :
                            IsSpace(t[i]) /\ \A j \in 1..(i - 1) : ~IsSpace(t[j])) - 1
                  ELSE Len(t)
         IN <<SubSeq(t, 1, n)>> \o Words(SubSeq(t, n + 1, Len(t)))

RECURSIVE JoinWords(_)
\* " ".join(ws)
JoinWords(ws) ==
    IF ws = <<>> THEN EMPTY
    ELSE IF Len(ws) = 1 THEN ws[1]
    ELSE ws[1] \o <<" ">> \o JoinWords(Tail(ws))

\* ------------------------------------------------------------------------
\* Field normalisers and the dedupe key
\* ------------------------------------------------------------------------
\* _norm_text: strip, lower, collapse whitespace runs
_norm_text(v) == CollapseWs(Lower(Strip(v)))

LegalSuffixes ==
    { <<"i","n","c">>,
      <<"i","n","c","o","r","p","o","r","a","t","e","d">>,
      <<"l","l","c">>,
      <<"l","t","d">>,
      <<"c","o">>,
      <<"c","o","r","p">>,
      <<"c","o","r","p","o","r","a","t","i","o","n">>,
      <<"c","o","m","p","a","n","y">>,
      <<"g","m","b","h">>,
      <<"s","a","r","l">>,
      <<"s","a">>,
      <<"p","l","c">> }

CompanyChars == {LowerLetters[i] : i \in 1..26} \cup Digits \cup {" "}

\* _norm_company without the [^a-z0-9 ] filter: punctuation stays in the words
_norm_company_unfiltered(v) ==
    LET s0 == _norm_text(v) IN
    IF s0 = EMPTY THEN EMPTY
    ELSE LET s1 == ReplaceChar(s0, "&", <<" ","a","n","d"," ">>)
         IN JoinWords(SelectSeq(Words(s1), LAMBDA w : w \notin LegalSuffixes))

\* _norm_company.  After the character filter only [a-z0-9 ] remain, so a
\* \b...\b match of a suffix is exactly a whole space-delimited word; removing
\* those words, collapsing whitespace and stripping leaves the other words
\* joined by single spaces.
_norm_company(v) ==
    LET s0 == _norm_text(v) IN
    IF s0 = EMPTY THEN EMPTY
    ELSE LET s1 == ReplaceChar(s0, "&", <<" ","a","n","d"," ">>)
             s2 == KeepChars(s1, CompanyChars)
         IN JoinWords(SelectSeq(Words(s2), LAMBDA w : w \notin LegalSuffixes))

\* _norm_email without .lower(): whitespace handled, letter case kept
_norm_email_cased(v) ==
    LET s == CollapseWs(Strip(v)) IN
    IF ~Contains(s, "@") THEN EMPTY ELSE s

\* _norm_email
_norm_email(v) ==
    LET s == _norm_text(v) IN
    IF ~Contains(s, "@") THEN EMPTY ELSE s

HttpPrefix == <<"h","t","t","p",":","/","/">>
HttpsPrefix == <<"h","t","t","p","s",":","/","/">>

\* _clean_url
_clean_url(v) ==
    LET s == Strip(v) IN
    IF s = EMPTY THEN EMPTY
    ELSE IF StartsWith(s, HttpPrefix) \/ StartsWith(s, HttpsPrefix) THEN s
    ELSE HttpsPrefix \o LStripChar(s, "/")

\* re.sub(r"[?#].*$", "", s): cut at the first "?" or "#"
StripQuery(s) ==
    IF \E i \in 1..Len(s) : s[i] \in {"?", "#"}
    THEN SubSeq(s, 1, (CHOOSE i \in 1..Len(s) :
                          s[i] \in {"?", "#"}
                          /\ \A j \in 1..(i - 1) : s[j] \notin {"?", "#"}) - 1)
    ELSE s

\* _norm_profile
_norm_profile(v) ==
    LET s == Lower(Strip(_clean_url(v))) IN
    IF s = EMPTY THEN EMPTY
    ELSE RStripChar(StripQuery(s), "/")

EmailPrefix == <<"e","m","a","i","l",":">>
ProfilePrefix == <<"p","r","o","f","i","l","e",":">>
NamecoPrefix == <<"n","a","m","e","c","o",":">>

\* compute_dedupe_key trying name and company before e-mail and profile URL
compute_dedupe_key_name_first(first, last, company, email, profile_url) ==
    LET em == _norm_email(email)
        pr == _norm_profile(profile_url)
        fn == _norm_text(first)
        ln == _norm_text(last)
        co == _norm_company(company)
    IN  IF fn # EMPTY \/ ln # EMPTY \/ co # EMPTY
        THEN NamecoPrefix \o fn \o <<"|">> \o ln \o <<"|">> \o co
        ELSE IF em # EMPTY THEN EmailPrefix \o em
        ELSE IF pr # EMPTY THEN ProfilePrefix \o pr
        ELSE EMPTY

\* compute_dedupe_key trying the profile URL before the e-mail
compute_dedupe_key_profile_first(first, last, company, email, profile_url) ==
    LET em == _norm_email(email)
        pr == _norm_profile(profile_url)
        fn == _norm_text(first)
        ln == _norm_text(last)
        co == _norm_company(company)
    IN  IF pr # EMPTY THEN ProfilePrefix \o pr
        ELSE IF em # EMPTY THEN EmailPrefix \o em
        ELSE IF fn # EMPTY \/ ln # EMPTY \/ co # EMPTY
             THEN NamecoPrefix \o fn \o <<"|">> \o ln \o <<"|">> \o co
        ELSE EMPTY

\* compute_dedupe_key
compute_dedupe_key(first, last, company, email, profile_url) ==
    LET em == _norm_email(email)
        pr == _norm_profile(profile_url)
        fn == _norm_text(first)
        ln == _norm_text(last)
        co == _norm_company(company)
    IN  IF em # EMPTY THEN EmailPrefix \o em
        ELSE IF pr # EMPTY THEN ProfilePrefix \o pr
        ELSE IF fn # EMPTY \/ ln # EMPTY \/ co # EMPTY
             THEN NamecoPrefix \o fn \o <<"|">> \o ln \o <<"|">> \o co
        ELSE EMPTY

\* ------------------------------------------------------------------------
\* Pipeline status
\* ------------------------------------------------------------------------
StNew == <<"N","e","w">>
StContacted == <<"C","o","n","t","a","c","t","e","d">>
StMeeting == <<"M","e","e","t","i","n","g">>
StQuoted == <<"Q","u","o","t","e","d">>
StWon == <<"W","o","n">>
StLost == <<"L","o","s","t">>
StNurture == <<"N","u","r","t","u","r","e">>
StPending == <<"P","e","n","d","i","n","g">>
StOnHold == <<"O","n"," ","h","o","l","d">>
StIrrelevant == <<"I","r","r","e","l","e","v","a","n","t">>

\* PIPELINE
PIPELINE ==
    <<StNew, StContacted, StMeeting, StQuoted, StWon, StLost, StNurture, StPending, StOnHold, StIrrelevant>>

PipelineSet == {PIPELINE[i] : i \in 1..Len(PIPELINE)}

\* the synonyms table of normalize_status, as <<synonym, status>> pairs
StatusSynonyms ==
    { <<<<"n","e","w"," ","l","e","a","d">>, StNew>>,
      <<<<"c","o","n","t","a","c","t">>, StContacted>>,
      <<<<"m","e","e","t","i","n","g"," ","s","c","h","e","d","u","l","e","d">>, StMeeting>>,
      <<<<"q","u","o","t","e">>, StQuoted>>,
      <<<<"w","o","n"," ","d","e","a","l">>, StWon>>,
      <<<<"l","o","s","t"," ","d","e","a","l">>, StLost>>,
      <<<<"f","o","l","l","o","w"," ","u","p">>, StNurture>>,
      <<<<"f","o","l","l","o","w","-","u","p">>, StNurture>> }

\* normalize_status handing an unrecognised value back instead of None
normalize_status_lenient(val) ==
    LET s == Lower(Strip(val)) IN
    IF s = EMPTY THEN EMPTY
    ELSE IF \E i \in 1..Len(PIPELINE) : s = Lower(PIPELINE[i])
         THEN PIPELINE[CHOOSE i \in 1..Len(PIPELINE) :
                          s = Lower(PIPELINE[i])
                          /\ \A j \in 1..(i - 1) : s # Lower(PIPELINE[j])]
    ELSE IF \E y \in StatusSynonyms : y[1] = s
         THEN (CHOOSE y \in StatusSynonyms : y[1] = s)[2]
    ELSE Strip(val)

\* normalize_status: the recognised status, or EMPTY for None
normalize_status(val) ==
    LET s == Lower(Strip(val)) IN
    IF s = EMPTY THEN EMPTY
    ELSE IF \E i \in 1..Len(PIPELINE) : s = Lower(PIPELINE[i])
         THEN PIPELINE[CHOOSE i \in 1..Len(PIPELINE) :
                          s = Lower(PIPELINE[i])
                          /\ \A j \in 1..(i - 1) : s # Lower(PIPELINE[j])]
    ELSE IF \E y \in StatusSynonyms : y[1] = s
         THEN (CHOOSE y \in StatusSynonyms : y[1] = s)[2]
    ELSE EMPTY

\* `x or "New"` on a status read from the store
OrNew(st) == IF st = EMPTY THEN StNew ELSE st

\* ------------------------------------------------------------------------
\* Note sanitiser
\* ------------------------------------------------------------------------
\* index of the first occurrence of m in s, 0 if there is none
FindSub(s, m) ==
    LET hits == {i \in 1..(Len(s) - Len(m) + 1) : SubSeq(s, i, i + Len(m) - 1) = m}
    IN  IF hits = {} THEN 0 ELSE CHOOSE i \in hits : \A j \in hits : i <= j

\* _EMAIL_THREAD_MARKERS
_EMAIL_THREAD_MARKERS ==
    << <<"\n","O","n"," ">>,
       <<"\n","F","r","o","m",":">>,
       <<"\n","S","e","n","t",":">>,
       <<"\n","S","u","b","j","e","c","t",":">>,
       <<"\n","T","o",":">>,
       <<"\n","C","c",":">> >>

\* the loop over the markers: cut at the first marker (in tuple order) found
TrimAtMarker(s) ==
    LET found == {i \in 1..Len(_EMAIL_THREAD_MARKERS) : FindSub(s, _EMAIL_THREAD_MARKERS[i]) > 0}
    IN  IF found = {} THEN s
        ELSE LET i == CHOOSE i \in found : \A j \in found : i <= j
             IN  SubSeq(s, 1, FindSub(s, _EMAIL_THREAD_MARKERS[i]) - 1)

\* a match of r"\nOn\s.+\swrote:\s*\n" starts at position i of s
WroteMatchAt(s, i) ==
    /\ i + 3 <= Len(s)
    /\ SubSeq(s, i, i + 2) = <<"\n","O","n">>
    /\ IsSpace(s[i + 3])
    /\ \E k \in (i + 5)..Len(s) :
         /\ \A j \in (i + 4)..(k - 1) : s[j] # "\n"
         /\ IsSpace(s[k])
         /\ k + 6 <= Len(s)
         /\ SubSeq(s, k + 1, k + 6) = <<"w","r","o","t","e",":">>
         /\ \E t \in (k + 7)..Len(s) :
              /\ \A j \in (k + 7)..(t - 1) : IsSpace(s[j])
              /\ s[t] = "\n"

\* re.split(r"\nOn\s.+\swrote:\s*\n", s, maxsplit=1)[0]
TrimAtWrote(s) ==
    LET hits == {i \in 1..Len(s) : WroteMatchAt(s, i)}
    IN  IF hits = {} THEN s
        ELSE SubSeq(s, 1, (CHOOSE i \in hits : \A j \in hits : i <= j) - 1)

RECURSIVE NormalizeNewlines(_)
\* s.replace("\r\n", "\n").replace("\r", "\n")
NormalizeNewlines(s) ==
    IF s = EMPTY THEN EMPTY
    ELSE IF Head(s) = "\r"
         THEN <<"\n">> \o NormalizeNewlines(
                 IF Len(s) >= 2 /\ s[2] = "\n" THEN Tail(Tail(s)) ELSE Tail(s))
         ELSE <<Head(s)>> \o NormalizeNewlines(Tail(s))

\* the return-key glyph U+23CE the sanitiser puts in place of a line break
NewlineMark == "^"

\* the ellipsis U+2026 appended to a truncated note
Ellipsis == "~"

RECURSIVE MarkNewlines(_)
\* re.sub(r"\n+", " <mark> ", s)
MarkNewlines(s) ==
    IF s = EMPTY THEN EMPTY
    ELSE IF Head(s) = "\n"
         THEN <<" ", NewlineMark, " ">> \o MarkNewlines(LStripChar(s, "\n"))
         ELSE <<Head(s)>> \o MarkNewlines(Tail(s))

\* default max_len of sanitize_note_text
NOTE_MAX_LEN == 4000

\* sanitize_note_text(v, trim_email_threads=trim)
sanitize_note_text(v, trim) ==
    LET s0 == NormalizeNewlines(v)
        s1 == IF trim THEN TrimAtWrote(TrimAtMarker(s0)) ELSE s0
        s2 == Strip(CollapseWs(MarkNewlines(s1)))
    IN  IF Len(s2) > NOTE_MAX_LEN
        THEN RStrip(SubSeq(s2, 1, NOTE_MAX_LEN)) \o <<Ellipsis>>
        ELSE s2

\* ------------------------------------------------------------------------
\* The store: contacts (id -> row), notes, status_history, sales
\* ------------------------------------------------------------------------
\* smallest / largest element of a non-empty set of integers
MinOf(ids) == CHOOSE i \in ids : \A j \in ids : i <= j
MaxOf(ids) == CHOOSE i \in ids : \A j \in ids : i >= j

\* the rowid SQLite gives an INSERT into a table with INTEGER PRIMARY KEY
NewRowId(cs) == IF DOMAIN cs = {} THEN 1 ELSE MaxOf(DOMAIN cs) + 1

\* the rows of the partial unique index: dedupe_key IS NOT NULL AND TRIM(dedupe_key) <> ''
Indexed(key) == key # EMPTY /\ Strip(key) # EMPTY

\* CREATE UNIQUE INDEX idx_contacts_dedupe_key succeeds on the contacts cs
IndexCreatable(cs) ==
    \A a, b \in DOMAIN cs :
        (a # b /\ Indexed(cs[a].dedupe_key)) => cs[a].dedupe_key # cs[b].dedupe_key

\* writing (email, key) into row id of cs violates no constraint: the column
\* constraint `email TEXT UNIQUE` (NULLs exempt) and, when it exists, the
\* partial unique index on dedupe_key
WriteAllowed(cs, id, email, key, idx) ==
    /\ email = EMPTY \/ \A c \in DOMAIN cs \ {id} : cs[c].email # email
    /\ ~idx \/ ~Indexed(key) \/ \A c \in DOMAIN cs \ {id} : cs[c].dedupe_key # key

\* _find_existing_contact_id with the profile URL looked up before the e-mail
_find_existing_contact_id_profile_first(cs, dedupe_key, email, profile_url) ==
    LET byEmail == {c \in DOMAIN cs : cs[c].email = email}
        byProfile == {c \in DOMAIN cs : cs[c].profile_url # EMPTY
                                         /\ Lower(cs[c].profile_url) = Lower(profile_url)}
        byKey == {c \in DOMAIN cs : cs[c].dedupe_key = dedupe_key}
    IN  IF profile_url # EMPTY /\ byProfile # {} THEN MinOf(byProfile)
        ELSE IF email # EMPTY /\ byEmail # {} THEN MinOf(byEmail)
        ELSE IF dedupe_key # EMPTY /\ byKey # {} THEN MinOf(byKey)
        ELSE 0

\* _find_existing_contact_id; 0 for None.  fetchone() of a query without
\* ORDER BY on the rowid table returns the row with the smallest id.
_find_existing_contact_id(cs, dedupe_key, email, profile_url) ==
    LET byEmail == {c \in DOMAIN cs : cs[c].email = email}
        byProfile == {c \in DOMAIN cs : cs[c].profile_url # EMPTY
                                         /\ Lower(cs[c].profile_url) = Lower(profile_url)}
        byKey == {c \in DOMAIN cs : cs[c].dedupe_key = dedupe_key}
    IN  IF email # EMPTY /\ byEmail # {} THEN MinOf(byEmail)
        ELSE IF profile_url # EMPTY /\ byProfile # {} THEN MinOf(byProfile)
        ELSE IF dedupe_key # EMPTY /\ byKey # {} THEN MinOf(byKey)
        ELSE 0

\* backup_contacts: the CSV is rewritten only when the table is not empty
backup_contacts(cs, bk) == IF DOMAIN cs = {} THEN bk ELSE cs

\* ------------------------------------------------------------------------
\* Duplicate sweep and the unique index
\* ------------------------------------------------------------------------
\* the winner if the ids were selected ORDER BY id DESC
MergeWinnerNewest(ids) == MaxOf(ids)

\* `winner = ids[0]` of the ids selected ORDER BY id ASC
MergeWinner(ids) == MinOf(ids)

\* `UPDATE contacts SET dedupe_key=NULL` without the loop that follows it
ClearKeys(cs) == [c \in DOMAIN cs |-> [cs[c] EXCEPT !.dedupe_key = EMPTY]]

\* the UPDATE ... SET dedupe_key=? loop of dedupe_database: every key recomputed
RecomputeKeys(cs) ==
    [c \in DOMAIN cs |->
        [cs[c] EXCEPT !.dedupe_key =
            compute_dedupe_key(cs[c].first_name, cs[c].last_name, cs[c].company,
                               cs[c].email, cs[c].profile_url)]]

\* the dup_keys query without its WHERE clause: the empty key is a group too
DupKeysWithEmpty(cs) ==
    {k \in {cs[c].dedupe_key : c \in DOMAIN cs} :
        Cardinality({c \in DOMAIN cs : cs[c].dedupe_key = k}) > 1}

\* the dup_keys query cut to its first row
DupKeysFirstOnly(cs) ==
    LET all == {k \in {cs[c].dedupe_key : c \in DOMAIN cs} :
                   Indexed(k) /\ Cardinality({c \in DOMAIN cs : cs[c].dedupe_key = k}) > 1}
    IN  IF all = {} THEN {} ELSE {CHOOSE k \in all : TRUE}

\* the dup_keys query: non-empty keys held by more than one contact
DupKeys(cs) ==
    {k \in {cs[c].dedupe_key : c \in DOMAIN cs} :
        Indexed(k) /\ Cardinality({c \in DOMAIN cs : cs[c].dedupe_key = k}) > 1}

\* one iteration of `for (k,) in dup_keys` without the three UPDATEs: the
\* losers are deleted and ON DELETE CASCADE removes their children
MergeGroupCascade(S, k) ==
    LET ids == {c \in DOMAIN S.contacts : S.contacts[c].dedupe_key = k} IN
    IF Cardinality(ids) <= 1 THEN S
    ELSE LET winner == MergeWinner(ids)
             losers == ids \ {winner}
             Kept(rows) == SelectSeq(rows, LAMBDA r : r.contact_id \notin losers)
         IN  [contacts |-> [c \in DOMAIN S.contacts \ losers |-> S.contacts[c]],
              notes |-> Kept(S.notes),
              status_history |-> Kept(S.status_history),
              sales |-> Kept(S.sales),
              deleted |-> S.deleted + Cardinality(losers)]

\* one iteration of `for (k,) in dup_keys` with `deleted += 1`: the merged
\* groups are counted instead of the deleted contacts
MergeGroupCountsGroups(S, k) ==
    LET ids == {c \in DOMAIN S.contacts : S.contacts[c].dedupe_key = k} IN
    IF Cardinality(ids) <= 1 THEN S
    ELSE LET winner == MergeWinner(ids)
             losers == ids \ {winner}
             Repoint(rows) ==
                 [i \in 1..Len(rows) |->
                     IF rows[i].contact_id \in losers
                     THEN [rows[i] EXCEPT !.contact_id = winner]
                     ELSE rows[i]]
         IN  [contacts |-> [c \in DOMAIN S.contacts \ losers |-> S.contacts[c]],
              notes |-> Repoint(S.notes),
              status_history |-> Repoint(S.status_history),
              sales |-> Repoint(S.sales),
              deleted |-> S.deleted + 1]

\* one iteration of `for (k,) in dup_keys`: children of the losers re-pointed
\* to the winner, then the losers deleted.  S.deleted counts the losers.
MergeGroup(S, k) ==
    LET ids == {c \in DOMAIN S.contacts : S.contacts[c].dedupe_key = k} IN
    IF Cardinality(ids) <= 1 THEN S
    ELSE LET winner == MergeWinner(ids)
             losers == ids \ {winner}
             Repoint(rows) ==
                 [i \in 1..Len(rows) |->
                     IF rows[i].contact_id \in losers
                     THEN [rows[i] EXCEPT !.contact_id = winner]
                     ELSE rows[i]]
         IN  [contacts |-> [c \in DOMAIN S.contacts \ losers |-> S.contacts[c]],
              notes |-> Repoint(S.notes),
              status_history |-> Repoint(S.status_history),
              sales |-> Repoint(S.sales),
              deleted |-> S.deleted + Cardinality(losers)]

RECURSIVE MergeGroups(_, _)
\* the loop over dup_keys, in the order given
MergeGroups(S, order) ==
    IF order = <<>> THEN S
    ELSE MergeGroups(MergeGroup(S, Head(order)), Tail(order))

RECURSIVE SetToSeq(_)
\* some enumeration of a finite set
SetToSeq(X) ==
    IF X = {} THEN <<>>
    ELSE LET x == CHOOSE x \in X : TRUE IN <<x>> \o SetToSeq(X \ {x})

\* the six parts of a database value: the four tables, whether the unique
\* index exists, and the backup file
DBOf(D) ==
    [contacts |-> D.contacts, notes |-> D.notes,
     status_history |-> D.status_history, sales |-> D.sales,
     index |-> D.index, backup |-> D.backup]

\* the end of dedupe_database without its CREATE UNIQUE INDEX: the index
\* dropped at the start is not put back
dedupe_database_end_dropped(M, bk) ==
    [contacts |-> M.contacts, notes |-> M.notes,
     status_history |-> M.status_history, sales |-> M.sales,
     index |-> FALSE,
     backup |-> backup_contacts(M.contacts, bk),
     deleted |-> M.deleted]

\* the end of dedupe_database on the merged tables M: CREATE UNIQUE INDEX in
\* try/except, backup_contacts over the backup file bk, `return deleted`
dedupe_database_end(M, bk) ==
    [contacts |-> M.contacts, notes |-> M.notes,
     status_history |-> M.status_history, sales |-> M.sales,
     index |-> IndexCreatable(M.contacts),
     backup |-> backup_contacts(M.contacts, bk),
     deleted |-> M.deleted]

\* dedupe_database, processing the duplicate groups in the given order.
\* D = [contacts, notes, status_history, sales, index, backup]; the result
\* also carries the return value `deleted`.
dedupe_database_in(D, order) ==
    dedupe_database_end(
        MergeGroups([contacts |-> RecomputeKeys(D.contacts), notes |-> D.notes,
                     status_history |-> D.status_history, sales |-> D.sales,
                     deleted |-> 0], order),
        D.backup)

\* dedupe_database
dedupe_database(D) ==
    dedupe_database_in(D, SetToSeq(DupKeys(RecomputeKeys(D.contacts))))

\* CREATE UNIQUE INDEX IF NOT EXISTS on the database D, a failure ignored;
\* n is the number of sweeps run before it
create_index(D, n) ==
    [contacts |-> D.contacts, notes |-> D.notes,
     status_history |-> D.status_history, sales |-> D.sales,
     index |-> D.index \/ IndexCreatable(D.contacts),
     backup |-> D.backup, swept |-> n]

\* ensure_dedupe_index without the except branch: a failed CREATE is ignored
ensure_dedupe_index_once(D) == create_index(D, 0)

\* ensure_dedupe_index if it swept before trying to create the index
ensure_dedupe_index_eager(D) == create_index(dedupe_database(D), 1)

\* ensure_dedupe_index; `swept` counts the sweeps it ran
ensure_dedupe_index(D) ==
    IF D.index \/ IndexCreatable(D.contacts)
    THEN create_index(D, 0)
    ELSE create_index(dedupe_database(D), 1)

\* ------------------------------------------------------------------------
\* Upsert pipeline
\* ------------------------------------------------------------------------
\* the per-row locals of upsert_contacts, computed from the raw row r before
\* the store is touched
\* PrepareRow with the key computed without the profile URL
PrepareRow_key_without_profile(r) ==
    LET email == _norm_email(r.email)
        first == Strip(r.first_name)
        last == Strip(r.last_name)
        company == Strip(r.company)
        profile_url == _clean_url(r.profile_url)
    IN  [email |-> email,
         first_name |-> first,
         last_name |-> last,
         company |-> company,
         profile_url |-> profile_url,
         status_from_file |-> normalize_status(r.status),
         note_text |-> sanitize_note_text(r.notes, TRUE),
         dedupe_key |-> compute_dedupe_key(first, last, company, email, EMPTY)]

PrepareRow(r) ==
    LET email == _norm_email(r.email)
        first == Strip(r.first_name)
        last == Strip(r.last_name)
        company == Strip(r.company)
        profile_url == _clean_url(r.profile_url)
    IN  [email |-> email,
         first_name |-> first,
         last_name |-> last,
         company |-> company,
         profile_url |-> profile_url,
         status_from_file |-> normalize_status(r.status),
         note_text |-> sanitize_note_text(r.notes, TRUE),
         dedupe_key |-> compute_dedupe_key(first, last, company, email, profile_url)]

\* final_status without its last alternative: `status_from_file or existing_status`
upsert_final_status_blank(status_from_file, existing_status) ==
    IF status_from_file # EMPTY THEN status_from_file ELSE existing_status

\* `final_status = status_from_file or existing_status or "New"`
upsert_final_status(status_from_file, existing_status) ==
    IF status_from_file # EMPTY THEN status_from_file
    ELSE IF existing_status # EMPTY THEN existing_status
    ELSE StNew

\* the status_history INSERT of upsert_contacts left out
upsert_status_history_none(hist, existing_id, existing_status, final_status) == hist

\* status_history after the `if existing_id:` block's first statement: a row
\* (existing status, final status) is inserted when the two differ
upsert_status_history(hist, existing_id, existing_status, final_status) ==
    IF existing_id # 0 /\ Strip(OrNew(existing_status)) # Strip(OrNew(final_status))
    THEN Append(hist, [contact_id |-> existing_id,
                       old_status |-> Strip(OrNew(existing_status)),
                       new_status |-> Strip(OrNew(final_status))])
    ELSE hist

\* the note INSERT of upsert_contacts without the SELECT that guards it
upsert_note_unguarded(ns, contact_id, note_text) ==
    IF note_text # EMPTY
    THEN Append(ns, [contact_id |-> contact_id, body |-> note_text])
    ELSE ns

\* upsert_note with the guard looking at the newest note of the table only
upsert_note_guard_newest(ns, contact_id, note_text) ==
    IF note_text # EMPTY
       /\ ~(ns # <<>> /\ ns[Len(ns)].contact_id = contact_id
                      /\ ns[Len(ns)].body = note_text)
    THEN Append(ns, [contact_id |-> contact_id, body |-> note_text])
    ELSE ns

\* notes after the `if note_text:` block: the note is inserted unless the
\* contact already has a note with this body
upsert_note(ns, contact_id, note_text) ==
    IF note_text # EMPTY
       /\ ~\E i \in 1..Len(ns) :
              ns[i].contact_id = contact_id /\ ns[i].body = note_text
    THEN Append(ns, [contact_id |-> contact_id, body |-> note_text])
    ELSE ns

\* the body of the `for idx, r in df.iterrows()` loop for one prepared row p,
\* on the uncommitted store S = [contacts, notes, status_history, sales] with
\* the index present or not.  An sqlite3.Error undoes only the failing
\* statement: what the row executed before it stays in the open transaction.
\* Result: the store, res in {"inserted", "updated", "error"}, and the
\* contact id (0 when the row failed).
UpsertRow(S, idx, p) ==
    LET cs == S.contacts
        existing_id == _find_existing_contact_id(cs, p.dedupe_key, p.email, p.profile_url)
        existing_status == IF existing_id # 0 THEN OrNew(cs[existing_id].status) ELSE EMPTY
        final_status == upsert_final_status(p.status_from_file, existing_status)
        hist1 == upsert_status_history(S.status_history, existing_id,
                                       existing_status, final_status)
        contact_id == IF existing_id # 0 THEN existing_id ELSE NewRowId(cs)
        newrow == [first_name |-> p.first_name, last_name |-> p.last_name,
                   company |-> p.company, email |-> p.email,
                   profile_url |-> p.profile_url, status |-> final_status,
                   dedupe_key |-> p.dedupe_key]
        cs1 == [c \in DOMAIN cs \cup {contact_id} |->
                    IF c = contact_id THEN newrow ELSE cs[c]]
    IN  IF ~WriteAllowed(cs, contact_id, p.email, p.dedupe_key, idx)
        THEN [S |-> [S EXCEPT !.status_history = hist1], res |-> "error", cid |-> 0]
        ELSE [S |-> [contacts |-> cs1,
                     notes |-> upsert_note(S.notes, contact_id, p.note_text),
                     status_history |-> hist1, sales |-> S.sales],
              res |-> IF existing_id # 0 THEN "updated" ELSE "inserted",
              cid |-> contact_id]

RECURSIVE UpsertRowsAbort(_, _, _, _)
\* the loop of upsert_contacts if the except clause left the loop
UpsertRowsAbort(S, idx, ps, log) ==
    IF ps = <<>> THEN [S |-> S, log |-> log]
    ELSE LET r == UpsertRow(S, idx, Head(ps))
             log1 == Append(log, [row |-> Head(ps), res |-> r.res, cid |-> r.cid,
                                  pre |-> S, post |-> r.S])
         IN  IF r.res = "error" THEN [S |-> r.S, log |-> log1]
             ELSE UpsertRowsAbort(r.S, idx, Tail(ps), log1)

RECURSIVE UpsertRows(_, _, _, _)
\* the loop of upsert_contacts over the prepared rows ps; log holds, per row,
\* the outcome and the store before and after the row
UpsertRows(S, idx, ps, log) ==
    IF ps = <<>> THEN [S |-> S, log |-> log]
    ELSE LET r == UpsertRow(S, idx, Head(ps))
         IN  UpsertRows(r.S, idx, Tail(ps),
                        Append(log, [row |-> Head(ps), res |-> r.res, cid |-> r.cid,
                                     pre |-> S, post |-> r.S]))

\* the value upsert_contacts hands back: the database E it leaves, with what
\* the loop U committed, its log, and the return value n
upsert_contacts_result(E, U) ==
    [contacts |-> E.contacts, notes |-> E.notes,
     status_history |-> E.status_history, sales |-> E.sales,
     index |-> E.index, backup |-> E.backup,
     committed |-> U.S,
     log |-> U.log,
     n |-> Cardinality({i \in 1..Len(U.log) : U.log[i].res # "error"})]

\* the end of upsert_contacts after the loop result U: conn.commit(),
\* backup_contacts, ensure_dedupe_index, `return n`
upsert_contacts_end(D, U) ==
    upsert_contacts_result(
        ensure_dedupe_index(
            [contacts |-> U.S.contacts, notes |-> U.S.notes,
             status_history |-> U.S.status_history, sales |-> U.S.sales,
             index |-> D.index,
             backup |-> backup_contacts(U.S.contacts, D.backup)]),
        U)

\* upsert_contacts on the prepared rows ps: the loop, commit, backup_contacts,
\* ensure_dedupe_index.  n is the return value (rows that did not fail).
upsert_contacts(D, ps) ==
    upsert_contacts_end(D, UpsertRows([contacts |-> D.contacts, notes |-> D.notes,
                                       status_history |-> D.status_history,
                                       sales |-> D.sales],
                                      D.index, ps, <<>>))

\* ------------------------------------------------------------------------
\* Direct status move, manual add, contact editor
\* ------------------------------------------------------------------------
\* rows of a child table without those of contact cid (ON DELETE CASCADE)
WithoutContact(rows, cid) == SelectSeq(rows, LAMBDA r : r.contact_id # cid)

\* update_contact_status
update_contact_status(D, contact_id, new_status0) ==
    LET new_status == Strip(OrNew(new_status0)) IN
    IF contact_id \notin DOMAIN D.contacts THEN D
    ELSE LET old_status == Strip(OrNew(D.contacts[contact_id].status)) IN
         IF old_status = new_status THEN D
         ELSE LET cs1 == [D.contacts EXCEPT ![contact_id].status = new_status]
              IN  [D EXCEPT
                     !.status_history = Append(@, [contact_id |-> contact_id,
                                                   old_status |-> old_status,
                                                   new_status |-> new_status]),
                     !.contacts = cs1,
                     !.backup = backup_contacts(cs1, @)]

\* add_sales_lines: one sales row per line with a product and qty > 0
add_sales_lines(sales, contact_id, lines) ==
    sales \o [i \in 1..Len(SelectSeq(lines, LAMBDA ln : ln.product # "" /\ ln.qty > 0)) |->
                 [contact_id |-> contact_id,
                  product |-> SelectSeq(lines, LAMBDA ln : ln.product # "" /\ ln.qty > 0)[i].product,
                  qty |-> SelectSeq(lines, LAMBDA ln : ln.product # "" /\ ln.qty > 0)[i].qty]]

\* contact_editor_save without the stop on a sale without lines
contact_editor_save_unchecked(D, contact_id, f, lines) ==
    LET row == D.contacts[contact_id]
        old_status == Strip(OrNew(row.status))
        new_status_norm == Strip(OrNew(f.status))
        sale_lines == SelectSeq(lines, LAMBDA ln : ln.product # "" /\ ln.qty > 0)
        becoming == old_status # StWon /\ new_status_norm = StWon
        email_norm == _norm_email(f.email)
        profile_norm == _clean_url(f.profile_url)
        dedupe_key == compute_dedupe_key(f.first_name, f.last_name, f.company,
                                         email_norm, profile_norm)
        hist1 == IF old_status # new_status_norm
                 THEN Append(D.status_history, [contact_id |-> contact_id,
                                                old_status |-> old_status,
                                                new_status |-> new_status_norm])
                 ELSE D.status_history
        cs1 == [D.contacts EXCEPT ![contact_id] =
                   [first_name |-> Strip(f.first_name), last_name |-> Strip(f.last_name),
                    company |-> Strip(f.company), email |-> email_norm,
                    profile_url |-> profile_norm, status |-> new_status_norm,
                    dedupe_key |-> dedupe_key]]
        sales1 == IF becoming THEN add_sales_lines(D.sales, contact_id, sale_lines)
                  ELSE D.sales
    IN  IF ~WriteAllowed(D.contacts, contact_id, email_norm, dedupe_key, D.index)
             THEN [D |-> D, res |-> "error"]
        ELSE [D |-> DBOf(ensure_dedupe_index(
                          [contacts |-> cs1, notes |-> D.notes, status_history |-> hist1,
                           sales |-> sales1, index |-> D.index,
                           backup |-> backup_contacts(cs1, D.backup)])),
              res |-> "saved"]

\* the `if saved:` branch of contact_editor for contact_id, the form values f
\* and the sale lines entered.  res: "stopped" (st.stop() before any write),
\* "error" (the UPDATE raised; the connection is dropped with its transaction
\* uncommitted, so nothing this save wrote is kept) or "saved".
contact_editor_save(D, contact_id, f, lines) ==
    LET row == D.contacts[contact_id]
        old_status == Strip(OrNew(row.status))
        new_status_norm == Strip(OrNew(f.status))
        sale_lines == SelectSeq(lines, LAMBDA ln : ln.product # "" /\ ln.qty > 0)
        becoming == old_status # StWon /\ new_status_norm = StWon
        email_norm == _norm_email(f.email)
        profile_norm == _clean_url(f.profile_url)
        dedupe_key == compute_dedupe_key(f.first_name, f.last_name, f.company,
                                         email_norm, profile_norm)
        hist1 == IF old_status # new_status_norm
                 THEN Append(D.status_history, [contact_id |-> contact_id,
                                                old_status |-> old_status,
                                                new_status |-> new_status_norm])
                 ELSE D.status_history
        cs1 == [D.contacts EXCEPT ![contact_id] =
                   [first_name |-> Strip(f.first_name), last_name |-> Strip(f.last_name),
                    company |-> Strip(f.company), email |-> email_norm,
                    profile_url |-> profile_norm, status |-> new_status_norm,
                    dedupe_key |-> dedupe_key]]
        sales1 == IF becoming THEN add_sales_lines(D.sales, contact_id, sale_lines)
                  ELSE D.sales
    IN  IF becoming /\ sale_lines = <<>> THEN [D |-> D, res |-> "stopped"]
        ELSE IF ~WriteAllowed(D.contacts, contact_id, email_norm, dedupe_key, D.index)
             THEN [D |-> D, res |-> "error"]
        ELSE [D |-> DBOf(ensure_dedupe_index(
                          [contacts |-> cs1, notes |-> D.notes, status_history |-> hist1,
                           sales |-> sales1, index |-> D.index,
                           backup |-> backup_contacts(cs1, D.backup)])),
              res |-> "saved"]

\* contact_editor_delete with the foreign keys not enforced
contact_editor_delete_no_cascade(D, contact_id) ==
    LET cs1 == [c \in DOMAIN D.contacts \ {contact_id} |-> D.contacts[c]]
    IN  [D EXCEPT !.contacts = cs1,
                  !.backup = backup_contacts(cs1, @)]

\* the `if delete_pressed:` branch of contact_editor
contact_editor_delete(D, contact_id) ==
    LET cs1 == [c \in DOMAIN D.contacts \ {contact_id} |-> D.contacts[c]]
    IN  [D EXCEPT !.contacts = cs1,
                  !.notes = WithoutContact(@, contact_id),
                  !.status_history = WithoutContact(@, contact_id),
                  !.sales = WithoutContact(@, contact_id),
                  !.backup = backup_contacts(cs1, @)]

\* the "Add note" button of contact_editor
contact_editor_add_note(D, contact_id, new_note) ==
    IF Strip(new_note) = EMPTY THEN D
    ELSE [D EXCEPT !.notes = Append(@, [contact_id |-> contact_id,
                                        body |-> sanitize_note_text(new_note, FALSE)]),
                   !.backup = backup_contacts(D.contacts, @)]

\* the `if submitted:` branch of add_contact_form for the form values f.
\* res: "invalid" (validation message, nothing written), "error" (the write
\* raised and nothing was committed), "updated" or "created".
add_contact_form(D, f) ==
    LET email_norm == _norm_email(f.email)
        profile_norm == _clean_url(f.profile_url)
        status_norm == OrNew(normalize_status(f.status))
        dedupe_key == compute_dedupe_key(f.first_name, f.last_name, f.company,
                                         email_norm, profile_norm)
        existing_id == _find_existing_contact_id(D.contacts, dedupe_key,
                                                 email_norm, profile_norm)
        cleaned_first_note == IF Strip(f.notes) # EMPTY
                              THEN sanitize_note_text(f.notes, FALSE) ELSE EMPTY
        contact_id == IF existing_id # 0 THEN existing_id ELSE NewRowId(D.contacts)
        newrow == [first_name |-> Strip(f.first_name), last_name |-> Strip(f.last_name),
                   company |-> Strip(f.company), email |-> email_norm,
                   profile_url |-> profile_norm, status |-> status_norm,
                   dedupe_key |-> dedupe_key]
        cs1 == [c \in DOMAIN D.contacts \cup {contact_id} |->
                   IF c = contact_id THEN newrow ELSE D.contacts[c]]
        notes1 == IF cleaned_first_note # EMPTY
                  THEN Append(D.notes, [contact_id |-> contact_id,
                                        body |-> cleaned_first_note])
                  ELSE D.notes
    IN  IF email_norm = EMPTY
           /\ ~(f.first_name # EMPTY /\ f.last_name # EMPTY /\ f.company # EMPTY)
        THEN [D |-> D, res |-> "invalid", cid |-> 0]
        ELSE IF ~WriteAllowed(D.contacts, contact_id, email_norm, dedupe_key, D.index)
             THEN [D |-> D, res |-> "error", cid |-> 0]
        ELSE [D |-> DBOf(ensure_dedupe_index(
                          [contacts |-> cs1, notes |-> notes1,
                           status_history |-> D.status_history, sales |-> D.sales,
                           index |-> D.index,
                           backup |-> backup_contacts(cs1, D.backup)])),
              res |-> IF existing_id # 0 THEN "updated" ELSE "created",
              cid |-> contact_id]

\* a row of the backup CSV as upsert_contacts reads it back
BackupRow(c) ==
    [first_name |-> c.first_name, last_name |-> c.last_name, company |-> c.company,
     email |-> c.email, profile_url |-> c.profile_url, status |-> c.status,
     notes |-> EMPTY]

\* restore_from_backup_if_empty
restore_from_backup_if_empty(D) ==
    IF DOMAIN D.contacts = {} /\ DOMAIN D.backup # {}
    THEN LET ids == DOMAIN D.backup
             Sorted[n \in 0..Cardinality(ids)] ==
                 IF n = 0 THEN <<>>
                 ELSE Append(Sorted[n - 1],
                             CHOOSE i \in ids :
                                 Cardinality({j \in ids : j < i}) = n - 1)
         IN  DBOf(upsert_contacts(D, [n \in 1..Cardinality(ids) |->
                                         PrepareRow(BackupRow(D.backup[Sorted[Cardinality(ids)][n]]))]))
    ELSE D

\* ------------------------------------------------------------------------
\* Inputs
\* ------------------------------------------------------------------------
\* an e-mail only row, mixed case
RowEmailUpper ==
    [first_name |-> EMPTY,
     last_name |-> EMPTY,
     company |-> EMPTY,
     email |-> <<"J",".","D","o","e","@","A","c","m","e",".","c","o","m">>,
     profile_url |-> EMPTY,
     status |-> EMPTY,
     notes |-> EMPTY]

\* the same e-mail in lower case with surrounding blanks, a profile, a status synonym and a note with a quoted thread
RowEmailLower ==
    [first_name |-> EMPTY,
     last_name |-> EMPTY,
     company |-> EMPTY,
     email |-> <<" ","j",".","d","o","e","@","a","c","m","e",".","c","o","m"," ">>,
     profile_url |-> <<"x",".","i","o","/","a">>,
     status |-> <<"w","o","n"," ","d","e","a","l">>,
     notes |-> <<"c","a","l","l","\n","F","r","o","m",":"," ","x">>]

\* name and company only
RowNameA ==
    [first_name |-> <<"J","a","n","e">>,
     last_name |-> <<"D","o","e">>,
     company |-> <<"A","c","m","e"," ","I","n","c",".">>,
     email |-> EMPTY,
     profile_url |-> EMPTY,
     status |-> EMPTY,
     notes |-> EMPTY]

\* the same name and company, written differently
RowNameB ==
    [first_name |-> <<"j","a","n","e">>,
     last_name |-> <<"d","o","e">>,
     company |-> <<"A","C","M","E",","," ","I","n","c">>,
     email |-> EMPTY,
     profile_url |-> EMPTY,
     status |-> <<"L","o","s","t">>,
     notes |-> <<"m","e","t">>]

\* a row with no identifying field at all
RowBlank ==
    [first_name |-> EMPTY,
     last_name |-> EMPTY,
     company |-> EMPTY,
     email |-> EMPTY,
     profile_url |-> EMPTY,
     status |-> EMPTY,
     notes |-> <<"m","e","t">>]

\* a profile only row with a trailing slash and an unrecognised status
RowProfileSlash ==
    [first_name |-> EMPTY,
     last_name |-> EMPTY,
     company |-> EMPTY,
     email |-> EMPTY,
     profile_url |-> <<"x",".","i","o","/","a","/">>,
     status |-> <<"t","b","d">>,
     notes |-> EMPTY]

\* a profile only row, upper-case host, with a status
RowProfile ==
    [first_name |-> EMPTY,
     last_name |-> EMPTY,
     company |-> EMPTY,
     email |-> EMPTY,
     profile_url |-> <<"X",".","i","o","/","a">>,
     status |-> <<"l","o","s","t">>,
     notes |-> EMPTY]

RawRows ==
    {RowEmailUpper, RowEmailLower, RowNameA, RowNameB, RowBlank, RowProfileSlash, RowProfile}

\* one person under her work address
RowJaneWork ==
    [first_name |-> <<"J","a","n","e">>,
     last_name |-> <<"D","o","e">>,
     company |-> <<"A","c","m","e"," ","I","n","c",".">>,
     email |-> <<"j","d","@","a",".","i","o">>,
     profile_url |-> EMPTY,
     status |-> EMPTY,
     notes |-> EMPTY]

\* the same name and company, written differently, under another address
RowJaneHome ==
    [first_name |-> <<"j","a","n","e">>,
     last_name |-> <<"d","o","e">>,
     company |-> <<"A","C","M","E",","," ","I","n","c">>,
     email |-> <<"J","D","@","b",".","i","o">>,
     profile_url |-> EMPTY,
     status |-> <<"q","u","o","t","e">>,
     notes |-> EMPTY]

\* the file with the two of them
NamesakeBatches == { <<RowJaneWork, RowJaneHome>> }

\* a profile only row whose URL is written in capitals, scheme included
RowProfileShout ==
    [first_name |-> EMPTY,
     last_name |-> EMPTY,
     company |-> EMPTY,
     email |-> EMPTY,
     profile_url |-> <<"H","T","T","P","S",":","/","/","X",".","I","O","/","A">>,
     status |-> EMPTY,
     notes |-> EMPTY]

\* a profile only row whose URL ends in two slashes and a fragment
RowProfileSlashes ==
    [first_name |-> EMPTY,
     last_name |-> EMPTY,
     company |-> EMPTY,
     email |-> EMPTY,
     profile_url |-> <<"x",".","i","o","/","b","/","/","#","t">>,
     status |-> EMPTY,
     notes |-> EMPTY]

\* the file with the two of them
ProfileBatches == { <<RowProfileShout, RowProfileSlashes>> }

\* the longest import file explored
MaxBatch == 2

\* the import files: every sequence of 1..MaxBatch raw rows, the file with
\* the two namesakes and the file with the two profile URLs
Batches ==
    UNION {[1..n -> RawRows] : n \in 1..MaxBatch} \cup NamesakeBatches \cup ProfileBatches

\* PrepareRow tabulated over the raw rows
Prepared ==
    [r \in RawRows \cup {RowJaneWork, RowJaneHome, RowProfileShout, RowProfileSlashes}
        |-> PrepareRow(r)]

\* manual-add forms
FormEmail ==
    [first_name |-> EMPTY,
     last_name |-> EMPTY,
     company |-> EMPTY,
     email |-> <<"J",".","D","o","e","@","A","c","m","e",".","c","o","m">>,
     profile_url |-> EMPTY,
     status |-> <<"M","e","e","t","i","n","g">>,
     notes |-> <<"v","i","p">>]

\* a manual-add form with name and company
FormName ==
    [first_name |-> <<"J","a","n","e">>,
     last_name |-> <<"D","o","e">>,
     company |-> <<"A","C","M","E",","," ","I","n","c">>,
     email |-> EMPTY,
     profile_url |-> EMPTY,
     status |-> <<"N","e","w">>,
     notes |-> EMPTY]

\* a manual-add form that fails validation
FormInvalid ==
    [first_name |-> <<"J","a","n","e">>,
     last_name |-> EMPTY,
     company |-> EMPTY,
     email |-> EMPTY,
     profile_url |-> EMPTY,
     status |-> <<"N","e","w">>,
     notes |-> EMPTY]

AddForms == {FormEmail, FormName, FormInvalid}

\* statuses picked in the editor's status selectbox, besides the current one
EditStatuses == {StWon, StLost}

\* an e-mail typed into the editor, besides the current one
EditEmail == <<"j",".","d","o","e","@","a","c","m","e",".","c","o","m">>

\* PRODUCTS
PRODUCTS == {"1 kW", "10 kW", "100 kW", "1 MW"}

\* the sale lines entered in the editor: none, a valid one, only unusable ones
SaleInputs ==
    { <<>>,
      <<[product |-> "10 kW", qty |-> 2]>>,
      <<[product |-> "", qty |-> 1], [product |-> "1 kW", qty |-> 0]>> }

\* the status the editor's selectbox shows for a stored row
EditorDefaultStatus(row) == IF row.status \in PipelineSet THEN row.status ELSE StNew

\* the forms the editor can submit for a stored row: the prefilled values with
\* the e-mail and the status possibly changed
EditorForms(row) ==
    {[first_name |-> row.first_name, last_name |-> row.last_name,
      company |-> row.company, email |-> e, profile_url |-> row.profile_url,
      status |-> st] :
        e \in {row.email, EditEmail},
        st \in {EditorDefaultStatus(row)} \cup EditStatuses}

\* targets of the "move" buttons
MoveStatuses == {StMeeting, StLost}

\* note texts typed in the editor
NoteInputs == { <<"o","k">> }

\* operations explored after the first start
MaxOps == 2

\* ------------------------------------------------------------------------
\* Stores found at the first start: databases written by earlier versions of
\* the application (init_db migrates them by adding the dedupe_key column).
\* The schema's `email TEXT UNIQUE` holds in each of them.
\* ------------------------------------------------------------------------
\* a fresh installation
LegacyNone ==
    [contacts |-> <<>>,
     notes |-> <<>>,
     status_history |-> <<>>,
     sales |-> <<>>]

\* ids 5 and 9 carry the same e-mail in different case, 5 as it was typed
\* before e-mails were lower-cased on write; 5 has 3 notes, 9 has 2
LegacyEmail ==
    [contacts |->
        (5 :> [first_name |-> <<"J","a","n","e">>, last_name |-> EMPTY, company |-> EMPTY,
            email |-> <<"J",".","D","o","e","@","A","c","m","e",".","c","o","m">>,
            profile_url |-> EMPTY,
            status |-> StContacted, dedupe_key |-> EMPTY] @@
         9 :> [first_name |-> <<"J","a","n","e">>, last_name |-> EMPTY, company |-> EMPTY,
            email |-> <<"j",".","d","o","e","@","a","c","m","e",".","c","o","m">>,
            profile_url |-> EMPTY,
            status |-> StWon, dedupe_key |-> EMPTY]),
     notes |-> <<[contact_id |-> 5, body |-> <<"n","1">>],
                [contact_id |-> 9, body |-> <<"n","2">>],
                [contact_id |-> 5, body |-> <<"n","3">>],
                [contact_id |-> 9, body |-> <<"n","4">>],
                [contact_id |-> 5, body |-> <<"n","5">>]>>,
     status_history |-> <<[contact_id |-> 5, old_status |-> StNew, new_status |-> StContacted],
                         [contact_id |-> 9, old_status |-> StNew, new_status |-> StWon]>>,
     sales |-> <<[contact_id |-> 9, product |-> "10 kW", qty |-> 1]>>]

\* two contacts with the same name and company, two with no identifying field
LegacyNames ==
    [contacts |->
        (1 :> [first_name |-> <<"J","a","n","e">>, last_name |-> <<"D","o","e">>, company |-> <<"A","c","m","e"," ","I","n","c",".">>,
            email |-> EMPTY,
            profile_url |-> EMPTY,
            status |-> EMPTY, dedupe_key |-> EMPTY] @@
         2 :> [first_name |-> EMPTY, last_name |-> EMPTY, company |-> EMPTY,
            email |-> EMPTY,
            profile_url |-> EMPTY,
            status |-> EMPTY, dedupe_key |-> EMPTY] @@
         3 :> [first_name |-> <<"j","a","n","e">>, last_name |-> <<"d","o","e">>, company |-> <<"A","C","M","E",","," ","I","n","c">>,
            email |-> EMPTY,
            profile_url |-> EMPTY,
            status |-> StLost, dedupe_key |-> EMPTY] @@
         4 :> [first_name |-> EMPTY, last_name |-> EMPTY, company |-> EMPTY,
            email |-> EMPTY,
            profile_url |-> EMPTY,
            status |-> StNew, dedupe_key |-> EMPTY]),
     notes |-> <<[contact_id |-> 3, body |-> <<"n","1">>],
                [contact_id |-> 4, body |-> <<"n","2">>],
                [contact_id |-> 2, body |-> <<"n","2">>]>>,
     status_history |-> <<[contact_id |-> 3, old_status |-> StNew, new_status |-> StLost]>>,
     sales |-> <<>>]

\* two duplicate groups (profile, name) and a contact sharing the profile URL but keyed by e-mail
LegacyProfiles ==
    [contacts |->
        (1 :> [first_name |-> EMPTY, last_name |-> EMPTY, company |-> EMPTY,
            email |-> EMPTY,
            profile_url |-> <<"h","t","t","p","s",":","/","/","x",".","i","o","/","a","/">>,
            status |-> StNew, dedupe_key |-> EMPTY] @@
         2 :> [first_name |-> EMPTY, last_name |-> EMPTY, company |-> EMPTY,
            email |-> <<"k","@","b",".","c">>,
            profile_url |-> <<"h","t","t","p","s",":","/","/","x",".","i","o","/","a">>,
            status |-> StContacted, dedupe_key |-> EMPTY] @@
         3 :> [first_name |-> EMPTY, last_name |-> EMPTY, company |-> EMPTY,
            email |-> EMPTY,
            profile_url |-> <<"h","t","t","p","s",":","/","/","X",".","i","o","/","a","?","s","=","1">>,
            status |-> StWon, dedupe_key |-> EMPTY] @@
         4 :> [first_name |-> <<"A","l">>, last_name |-> EMPTY, company |-> EMPTY,
            email |-> EMPTY,
            profile_url |-> EMPTY,
            status |-> EMPTY, dedupe_key |-> EMPTY] @@
         6 :> [first_name |-> <<" ","a","l"," ">>, last_name |-> EMPTY, company |-> EMPTY,
            email |-> EMPTY,
            profile_url |-> EMPTY,
            status |-> EMPTY, dedupe_key |-> EMPTY]),
     notes |-> <<[contact_id |-> 3, body |-> <<"n","1">>],
                [contact_id |-> 6, body |-> <<"n","2">>]>>,
     status_history |-> <<[contact_id |-> 2, old_status |-> StNew, new_status |-> StContacted],
                         [contact_id |-> 3, old_status |-> StNew, new_status |-> StWon]>>,
     sales |-> <<[contact_id |-> 3, product |-> "1 kW", qty |-> 2], [contact_id |-> 6, product |-> "1 MW", qty |-> 1]>>]

LegacyStores == {LegacyNone, LegacyEmail, LegacyNames, LegacyProfiles}

\* ------------------------------------------------------------------------
\* Login (check_login_two_factor_telegram)
\* ------------------------------------------------------------------------
\* seconds a one-time code stays valid
OTP_TTL_SECONDS == 300

\* the password expected when no APP_PASSWORD secret is set
DEFAULT_PASSWORD == "CatJorge"

\* the session keys of a login under way
LoginKeys ==
    {"auth_pw_ok", "otp_code", "otp_time", "otp_delivery_ok", "otp_delivery_msg",
     "login_username"}

\* dict.setdefault, dict.get and the pop of a set of keys
SetDefault(s, k, v) == IF k \in DOMAIN s THEN s ELSE (k :> v) @@ s
Get(s, k, d) == IF k \in DOMAIN s THEN s[k] ELSE d
Pop(s, ks) == [k \in DOMAIN s \ ks |-> s[k]]

\* the session is logged in; the password step of the session has succeeded
Authed(s) == Get(s, "authed", FALSE)
PwOk(s) == Get(s, "auth_pw_ok", FALSE)

\* the test that never finds a code expired
otp_expired_never(s, t) == FALSE

\* the code of session s is expired at time t
otp_expired(s, t) == "otp_time" \in DOMAIN s /\ t - s["otp_time"] > OTP_TTL_SECONDS

\* one run of check_login_two_factor_telegram at time t on session state s0
\* with the widget values ev: the session state it leaves, and whether it
\* returned (main goes on) or stopped the script. ev.code is the code
\* random.randint draws and ev.delivered whether Telegram took the message;
\* otp_delivery_msg is only displayed and is left out.
check_login_two_factor_telegram(s0, t, ev) ==
    LET s == SetDefault(SetDefault(s0, "auth_pw_ok", FALSE), "authed", FALSE)
        tg_user == LStripChar(Strip(ev.tg_user), "@")
    IN  IF s["authed"] THEN [ss |-> s, returned |-> TRUE]
        ELSE IF ~s["auth_pw_ok"]
        THEN IF ev.button = "Continue" /\ tg_user # EMPTY /\ ev.pwd = DEFAULT_PASSWORD
             THEN [ss |-> ("login_username" :> tg_user) @@ ("otp_code" :> ev.code)
                            @@ ("otp_time" :> t) @@ ("otp_delivery_ok" :> ev.delivered)
                            @@ [s EXCEPT !["auth_pw_ok"] = TRUE],
                   returned |-> FALSE]
             ELSE [ss |-> s, returned |-> FALSE]
        ELSE IF otp_expired(s, t) THEN [ss |-> Pop(s, LoginKeys), returned |-> FALSE]
        ELSE IF ev.button = "Verify"
        THEN IF Strip(ev.code_in) = Get(s, "otp_code", EMPTY)
             THEN [ss |-> Pop([s EXCEPT !["authed"] = TRUE], LoginKeys), returned |-> FALSE]
             ELSE [ss |-> s, returned |-> FALSE]
        ELSE IF ev.button = "Start over"
        THEN [ss |-> Pop(s, LoginKeys), returned |-> FALSE]
        ELSE [ss |-> s, returned |-> FALSE]

\* two of the codes random.randint can draw
OtpCodes == { <<"0","0","0","0","4","2">>, <<"9","1","7","3","5","0">> }

\* what the user types into the code field
CodeInputs == OtpCodes \cup {EMPTY, <<"0","0","0","4","2"," ">>}

\* what the user types into the username and password fields
UserInputs == {EMPTY, <<"@">>, <<"@","a","n","n">>}
PasswordInputs == {DEFAULT_PASSWORD, "catjorge"}

\* the widget values of a run: the button pressed and the fields
LoginEvents(buttons) ==
    [button : buttons, tg_user : UserInputs, pwd : PasswordInputs,
     code_in : CodeInputs, code : OtpCodes, delivered : BOOLEAN]

\* the clock: the steps it makes between two runs, and where it stops
TickSteps == {150, 151}
MaxTime == 460

\* ------------------------------------------------------------------------
\* State
\* ------------------------------------------------------------------------
VARIABLES
    contacts,        \* table contacts: id -> row
    notes,           \* table notes, in insertion order
    status_history,  \* table status_history, in insertion order
    sales,           \* table sales, in insertion order
    index,           \* idx_contacts_dedupe_key exists
    backup,          \* rows of data/contacts_backup.csv (no rows: no file)
    pc,              \* "boot": before the first run of main; "idle": main has
                     \* run its start-up calls and waits for the user;
                     \* "rerun": a handler has finished, the script runs again
    ops,             \* handlers run so far
    last,            \* what the last step did (an observation, never read
                     \* by the program)
    fresh,           \* the database file was created empty by this version
                     \* of the program (an observation, never read by it)
    ss,              \* st.session_state of the browser session
    now,             \* int(time.time())
    attempt          \* what the last run of the login did (an observation,
                     \* never read by the program)

vars == <<contacts, notes, status_history, sales, index, backup, pc, ops, last, fresh,
          ss, now, attempt>>

\* the variables of the login
loginvars == <<ss, now, attempt>>

\* the variables of the store and of main
appvars == <<contacts, notes, status_history, sales, index, backup, pc, ops, last, fresh>>

\* the database as the operators take it
DB ==
    [contacts |-> contacts, notes |-> notes, status_history |-> status_history,
     sales |-> sales, index |-> index, backup |-> backup]

\* the four tables
Tables == [contacts |-> contacts, notes |-> notes,
           status_history |-> status_history, sales |-> sales]

\* the tables of a database value
TablesOf(D) == [contacts |-> D.contacts, notes |-> D.notes,
                status_history |-> D.status_history, sales |-> D.sales]

\* the database after a step
Becomes(D) ==
    /\ contacts' = D.contacts
    /\ notes' = D.notes
    /\ status_history' = D.status_history
    /\ sales' = D.sales
    /\ index' = D.index
    /\ backup' = D.backup

\* all orders of a finite set
Perms(X) ==
    {q \in [1..Cardinality(X) -> X] : \A i, j \in 1..Cardinality(X) : i # j => q[i] # q[j]}

Init ==
    /\ \E L \in LegacyStores, keyed \in BOOLEAN :
         /\ contacts = IF keyed THEN RecomputeKeys(L.contacts) ELSE L.contacts
         /\ notes = L.notes
         /\ status_history = L.status_history
         /\ sales = L.sales
         /\ fresh = (L = LegacyNone)
    /\ index = FALSE
    /\ backup = <<>>
    /\ pc = "boot"
    /\ ops = 0
    /\ last = [op |-> "none"]
    /\ ss = ("authed" :> TRUE)
    /\ now = 0
    /\ attempt = [step |-> "none", pre |-> ss, at |-> 0]

\* main(): init_db, restore_from_backup_if_empty, ensure_dedupe_index
Startup ==
    /\ pc \in {"boot", "rerun"}
    /\ Authed(ss)
    /\ LET R == restore_from_backup_if_empty(DB)
           E == ensure_dedupe_index(R)
       IN  /\ Becomes(E)
           /\ last' = [op |-> "startup", pre |-> Tables, preIndex |-> index,
                       swept |-> E.swept]
    /\ pc' = "idle"
    /\ ops' = ops
    /\ fresh' = fresh
    /\ UNCHANGED loginvars

\* the user can act
Ready == pc = "idle" /\ ops < MaxOps

\* sidebar: "Deduplicate database now"
Sweep ==
    /\ Ready
    /\ \E order \in Perms(DupKeys(RecomputeKeys(contacts))) :
         LET R == dedupe_database_in(DB, order)
         IN  /\ Becomes(R)
             /\ last' = [op |-> "sweep", pre |-> Tables, preIndex |-> index,
                         deleted |-> R.deleted]
    /\ pc' = "rerun"
    /\ ops' = ops + 1
    /\ fresh' = fresh
    /\ UNCHANGED loginvars

\* sidebar: a file is uploaded and imported
Import ==
    /\ Ready
    /\ \E batch \in Batches :
         LET R == upsert_contacts(DB, [i \in 1..Len(batch) |-> Prepared[batch[i]]])
         IN  /\ Becomes(R)
             /\ last' = [op |-> "import", pre |-> Tables, preIndex |-> index,
                         raw |-> batch, log |-> R.log, committed |-> R.committed,
                         n |-> R.n]
    /\ pc' = "rerun"
    /\ ops' = ops + 1
    /\ fresh' = fresh
    /\ UNCHANGED loginvars

\* a "move" button of the priority lists
MoveStatus ==
    /\ Ready
    /\ \E cid \in DOMAIN contacts, st \in MoveStatuses :
         /\ Becomes(update_contact_status(DB, cid, st))
         /\ last' = [op |-> "move", pre |-> Tables, preIndex |-> index,
                     cid |-> cid, status |-> st]
    /\ pc' = "rerun"
    /\ ops' = ops + 1
    /\ fresh' = fresh
    /\ UNCHANGED loginvars

\* the manual-add form is submitted
ManualAdd ==
    /\ Ready
    /\ \E f \in AddForms :
         LET R == add_contact_form(DB, f)
         IN  /\ Becomes(R.D)
             /\ last' = [op |-> "add", pre |-> Tables, preIndex |-> index,
                         form |-> f, res |-> R.res, cid |-> R.cid]
    /\ pc' = "rerun"
    /\ ops' = ops + 1
    /\ fresh' = fresh
    /\ UNCHANGED loginvars

\* the contact editor's "Save changes"
EditorSave ==
    /\ Ready
    /\ \E cid \in DOMAIN contacts :
         \E f \in EditorForms(contacts[cid]), lines \in SaleInputs :
            LET R == contact_editor_save(DB, cid, f, lines)
            IN  /\ lines # <<>> =>
                      (Strip(OrNew(contacts[cid].status)) # StWon /\ f.status = StWon)
                /\ Becomes(R.D)
                /\ last' = [op |-> "edit", pre |-> Tables, preIndex |-> index,
                            cid |-> cid, form |-> f, lines |-> lines, res |-> R.res]
    /\ pc' = "rerun"
    /\ ops' = ops + 1
    /\ fresh' = fresh
    /\ UNCHANGED loginvars

\* the contact editor's "Delete this contact"
EditorDelete ==
    /\ Ready
    /\ \E cid \in DOMAIN contacts :
         /\ Becomes(contact_editor_delete(DB, cid))
         /\ last' = [op |-> "delete", pre |-> Tables, preIndex |-> index, cid |-> cid]
    /\ pc' = "rerun"
    /\ ops' = ops + 1
    /\ fresh' = fresh
    /\ UNCHANGED loginvars

\* the contact editor's "Add note"
EditorAddNote ==
    /\ Ready
    /\ \E cid \in DOMAIN contacts, text \in NoteInputs :
         /\ Becomes(contact_editor_add_note(DB, cid, text))
         /\ last' = [op |-> "note", pre |-> Tables, preIndex |-> index, cid |-> cid]
    /\ pc' = "rerun"
    /\ ops' = ops + 1
    /\ fresh' = fresh
    /\ UNCHANGED loginvars

Next ==
    \/ Startup
    \/ Sweep
    \/ Import
    \/ MoveStatus
    \/ ManualAdd
    \/ EditorSave
    \/ EditorDelete
    \/ EditorAddNote

Spec == Init /\ [][Next]_vars

\* ------------------------------------------------------------------------
\* The login of a new browser session on an empty store
\* ------------------------------------------------------------------------
LoginInit ==
    /\ contacts = <<>>
    /\ notes = <<>>
    /\ status_history = <<>>
    /\ sales = <<>>
    /\ index = FALSE
    /\ backup = <<>>
    /\ pc = "boot"
    /\ ops = 0
    /\ last = [op |-> "none"]
    /\ fresh = TRUE
    /\ ss = <<>>
    /\ now = 0
    /\ attempt = [step |-> "none", pre |-> ss, at |-> 0]

\* one run of the script up to the end of the login, caused by the button
\* b (or by anything else the user did: "none")
LoginRun(b) ==
    /\ ~Authed(ss)
    /\ \E ev \in LoginEvents({b}) :
          /\ ss' = check_login_two_factor_telegram(ss, now, ev).ss
          /\ attempt' = [step |-> b, pre |-> ss, at |-> now, ev |-> ev]
    /\ now' = now
    /\ UNCHANGED appvars

\* "Continue" is on the page until the password step has succeeded
LoginContinue == ~PwOk(ss) /\ LoginRun("Continue")

\* "Verify" and "Start over" are on the page after it
LoginVerify == PwOk(ss) /\ LoginRun("Verify")

LoginStartOver == PwOk(ss) /\ LoginRun("Start over")

\* a run for any other reason (the rerun after "Continue", a field edited,
\* a troubleshooting button)
LoginRerun == LoginRun("none")

\* time passes
Tick ==
    /\ \E d \in TickSteps :
          /\ now + d <= MaxTime
          /\ now' = now + d
    /\ attempt' = [step |-> "tick", pre |-> ss, at |-> now']
    /\ ss' = ss
    /\ UNCHANGED appvars

LoginNext ==
    \/ LoginContinue
    \/ LoginVerify
    \/ LoginStartOver
    \/ LoginRerun
    \/ Tick
    \/ Startup

LoginSpec == LoginInit /\ [][LoginNext]_vars

\* ------------------------------------------------------------------------
\* Observations shared by the properties
\* ------------------------------------------------------------------------
\* the last step ran dedupe_database on a store that held contacts (the
\* sidebar button, or ensure_dedupe_index at start-up after a failed CREATE)
SweepRan ==
    \/ last.op = "sweep"
    \/ last.op = "startup" /\ last.swept = 1 /\ DOMAIN last.pre.contacts # {}

\* the dedupe key of contact c of the table cs, recomputed from its fields
KeyOf(cs, c) ==
    compute_dedupe_key(cs[c].first_name, cs[c].last_name, cs[c].company,
                       cs[c].email, cs[c].profile_url)

\* the contacts of cs whose recomputed key is the non-empty key of c
GroupOf(cs, c) ==
    IF KeyOf(cs, c) = EMPTY THEN {c}
    ELSE {d \in DOMAIN cs : KeyOf(cs, d) = KeyOf(cs, c)}

\* the rows of a child table owned by contact c
OwnedBy(rows, c) == {i \in 1..Len(rows) : rows[i].contact_id = c}

\* the tables rows and rows0 hold the same child rows up to their owner
SameRows(rows, rows0) ==
    /\ Len(rows) = Len(rows0)
    /\ \A i \in 1..Len(rows) :
         [rows[i] EXCEPT !.contact_id = 0] = [rows0[i] EXCEPT !.contact_id = 0]

\* every row of rows has the owner it had in rows0, or, if that owner was
\* deleted, the smallest id of the owner's duplicate group in cs0
Reowned(rows, rows0, cs0, cs) ==
    \A i \in 1..Len(rows0) :
        LET o == rows0[i].contact_id IN
        rows[i].contact_id = IF o \in DOMAIN cs0 /\ o \notin DOMAIN cs
                             THEN MinOf(GroupOf(cs0, o))
                             ELSE o

\* ------------------------------------------------------------------------
\* Properties
\* ------------------------------------------------------------------------
\* C1: after every completed operation no two contacts hold the same
\* non-empty dedupe key; contacts with an empty key may coexist freely.
C1_UniqueNonEmptyKeys ==
    last.op # "none" =>
        \A a, b \in DOMAIN contacts :
            (a # b /\ contacts[a].dedupe_key # EMPTY)
                => contacts[a].dedupe_key # contacts[b].dedupe_key

\* C1 witness: an operation has completed on a store in which several
\* contacts hold non-empty keys and several hold the empty key
C1_Witness ==
    /\ last.op \in {"import", "sweep", "add", "edit"}
    /\ Cardinality({c \in DOMAIN contacts : contacts[c].dedupe_key # EMPTY}) >= 2
    /\ Cardinality({c \in DOMAIN contacts : contacts[c].dedupe_key = EMPTY}) >= 2

\* C2: a sweep deletes no Note, StatusChange or SaleLine; the rows keep their
\* content and order, and each row owned by a merge loser is owned by the
\* winner of the loser's group afterwards.
C2_SweepKeepsChildren ==
    SweepRan =>
        /\ SameRows(notes, last.pre.notes)
        /\ SameRows(status_history, last.pre.status_history)
        /\ SameRows(sales, last.pre.sales)
        /\ Reowned(notes, last.pre.notes, last.pre.contacts, contacts)
        /\ Reowned(status_history, last.pre.status_history, last.pre.contacts, contacts)
        /\ Reowned(sales, last.pre.sales, last.pre.contacts, contacts)
        /\ \A i \in 1..Len(notes) : notes[i].contact_id \in DOMAIN contacts

\* C2 witness: the sweep merged contact 9 (2 notes) into contact 5 (3 notes),
\* which now has 5 notes
C2_Witness ==
    /\ last.op = "sweep"
    /\ 9 \in DOMAIN last.pre.contacts
    /\ Cardinality(OwnedBy(last.pre.notes, 5)) = 3
    /\ Cardinality(OwnedBy(last.pre.notes, 9)) = 2
    /\ 5 \in DOMAIN contacts
    /\ 9 \notin DOMAIN contacts
    /\ Cardinality(OwnedBy(notes, 5)) = 5

\* C3: of every group of contacts sharing a recomputed non-empty key, the
\* one contact left by a sweep is the one with the smallest id.
C3_WinnerIsSmallestId ==
    SweepRan =>
        \A c \in DOMAIN last.pre.contacts :
            GroupOf(last.pre.contacts, c) \cap DOMAIN contacts
                = {MinOf(GroupOf(last.pre.contacts, c))}

\* C3 witness: a sweep merged two different duplicate groups
C3_Witness ==
    /\ last.op = "sweep"
    /\ last.deleted >= 2
    /\ \E a, b \in DOMAIN last.pre.contacts \ DOMAIN contacts :
         KeyOf(last.pre.contacts, a) # KeyOf(last.pre.contacts, b)

\* C4: a sweep run on the store a sweep has just left removes nothing and
\* changes no contact, key, child row or the index.
C4_SweepIdempotent ==
    SweepRan =>
        LET R == dedupe_database(DB) IN
        /\ R.deleted = 0
        /\ TablesOf(R) = Tables
        /\ R.index = index

\* C4 witness: the first sweep removed contacts
C4_Witness ==
    /\ last.op = "sweep"
    /\ last.deleted > 0
    /\ Len(notes) > 0

\* the step was a handler that may overwrite a contact's status
StatusWriter == last.op \in {"import", "move", "edit", "add"}

\* C5 (as claimed): whenever a handler leaves a contact with a status other
\* than the one it had, the handler appended a StatusChange for that contact
\* whose new_status is the status now stored.
C5_EveryStatusChangeRecorded ==
    StatusWriter =>
        \A c \in DOMAIN contacts \cap DOMAIN last.pre.contacts :
            OrNew(contacts[c].status) # OrNew(last.pre.contacts[c].status) =>
                \E i \in (Len(last.pre.status_history) + 1)..Len(status_history) :
                    /\ status_history[i].contact_id = c
                    /\ status_history[i].new_status = contacts[c].status

\* the e-mail a raw value stands for, by the claim's own notion of "the same
\* up to letter case and surrounding whitespace"
SameEmailAs(raw) == Lower(Strip(raw))

\* the raw row carries a usable e-mail
HasEmail(r) == Contains(r.email, "@")

NameOnly(r) ==
    /\ ~HasEmail(r)
    /\ Strip(r.profile_url) = EMPTY
    /\ Strip(r.first_name) # EMPTY \/ Strip(r.last_name) # EMPTY \/ Strip(r.company) # EMPTY

\* "nameco:jane|doe|acme"
KeyJaneDoeAcme ==
    <<"n","a","m","e","c","o",":","j","a","n","e","|","d","o","e","|","a","c","m","e">>

\* C7: {Jane, Doe, "Acme Inc."} and {jane, doe, "ACME, Inc"} both get the key
\* "nameco:jane|doe|acme"; a row with a name or company but no e-mail and no
\* profile never fails, and if a contact already holds the row's key the row
\* updates that contact instead of creating a second one.
C7_SameNameCompanyOneContact ==
    /\ Prepared[RowNameA].dedupe_key = KeyJaneDoeAcme
    /\ Prepared[RowNameB].dedupe_key = KeyJaneDoeAcme
    /\ last.op = "import" =>
        \A j \in 1..Len(last.log) :
            LET r == last.raw[j]
                pre == last.log[j].pre.contacts
                post == last.log[j].post.contacts
                k == last.log[j].row.dedupe_key
                held == {c \in DOMAIN pre : pre[c].dedupe_key = k}
            IN  NameOnly(r) =>
                    /\ last.log[j].res \in {"inserted", "updated"}
                    /\ post[last.log[j].cid].dedupe_key = k
                    /\ (r \in {RowNameA, RowNameB}) => k = KeyJaneDoeAcme
                    /\ held # {} =>
                          /\ last.log[j].res = "updated"
                          /\ last.log[j].cid \in held
                          /\ DOMAIN post = DOMAIN pre
                    /\ Cardinality({c \in DOMAIN post : post[c].dedupe_key = k})
                          <= Cardinality({c \in DOMAIN pre : pre[c].dedupe_key = k}) + 1
                    /\ (last.preIndex \/ held = {}) =>
                          Cardinality({c \in DOMAIN post : post[c].dedupe_key = k}) = 1

\* C7 witness: the two rows in one batch; the second updated the contact the
\* first created
C7_Witness ==
    /\ last.op = "import"
    /\ last.raw = <<RowNameA, RowNameB>>
    /\ last.log[1].res = "inserted"
    /\ last.log[2].res = "updated"
    /\ last.log[2].cid = last.log[1].cid
    /\ contacts[last.log[1].cid].dedupe_key = KeyJaneDoeAcme
    /\ contacts[last.log[1].cid].company = <<"A","C","M","E",","," ","I","n","c">>

\* the raw row has no usable e-mail, profile URL, name or company
Unkeyable(r) ==
    /\ ~HasEmail(r)
    /\ Strip(r.profile_url) = EMPTY
    /\ Strip(r.first_name) = EMPTY
    /\ Strip(r.last_name) = EMPTY
    /\ Strip(r.company) = EMPTY

\* the stored contact has no usable e-mail, profile URL, name or company
UnkeyableContact(c) ==
    /\ ~Contains(c.email, "@")
    /\ Strip(c.profile_url) = EMPTY
    /\ Strip(c.first_name) = EMPTY
    /\ Strip(c.last_name) = EMPTY
    /\ Strip(c.company) = EMPTY

\* C8: an imported row with no identifying field gets the empty key and
\* always creates a new contact; a sweep keeps every contact with no
\* identifying field, with the empty key and with exactly the child rows it
\* owned.
C8_UnkeyableNeverMerged ==
    /\ last.op = "import" =>
        \A j \in 1..Len(last.log) :
            LET pre == last.log[j].pre.contacts
                post == last.log[j].post.contacts
            IN  Unkeyable(last.raw[j]) =>
                    /\ last.log[j].res = "inserted"
                    /\ last.log[j].cid \notin DOMAIN pre
                    /\ DOMAIN post = DOMAIN pre \cup {last.log[j].cid}
                    /\ post[last.log[j].cid].dedupe_key = EMPTY
                    /\ \A c \in DOMAIN pre : post[c] = pre[c]
    /\ SweepRan =>
        \A c \in DOMAIN last.pre.contacts :
            UnkeyableContact(last.pre.contacts[c]) =>
                /\ c \in DOMAIN contacts
                /\ contacts[c].dedupe_key = EMPTY
                /\ OwnedBy(notes, c) = OwnedBy(last.pre.notes, c)
                /\ OwnedBy(status_history, c) = OwnedBy(last.pre.status_history, c)
                /\ OwnedBy(sales, c) = OwnedBy(last.pre.sales, c)

\* C8 witness: a sweep that merged a duplicate group has left four contacts
\* with no identifying field, two of them created by identical imported rows
C8_Witness ==
    /\ last.op = "sweep"
    /\ last.deleted > 0
    /\ Cardinality({c \in DOMAIN contacts : UnkeyableContact(contacts[c])}) >= 4
    /\ \E a, b \in DOMAIN contacts :
         a # b /\ contacts[a] = contacts[b] /\ UnkeyableContact(contacts[a])
         /\ OwnedBy(notes, a) # {} /\ OwnedBy(notes, b) # {}

\* C9: a constraint violation on one row does not abort the batch: every row
\* of the file is processed in order, each on the store the previous one
\* left; the failing row creates and updates no contact and adds no note;
\* what the other rows wrote is what the batch commits.
C9_FailedRowDoesNotAbortBatch ==
    last.op = "import" =>
        /\ Len(last.log) = Len(last.raw)
        /\ last.log[1].pre = last.pre
        /\ \A j \in 1..(Len(last.log) - 1) : last.log[j + 1].pre = last.log[j].post
        /\ last.committed = last.log[Len(last.log)].post
        /\ Tables = last.committed
        /\ last.n = Cardinality({j \in 1..Len(last.log) : last.log[j].res # "error"})
        /\ \A j \in 1..Len(last.log) :
             /\ last.log[j].row = PrepareRow(last.raw[j])
             /\ last.log[j].res = "error" =>
                   /\ last.log[j].post.contacts = last.log[j].pre.contacts
                   /\ last.log[j].post.notes = last.log[j].pre.notes
             /\ last.log[j].res # "error" =>
                   /\ last.log[j].cid \in DOMAIN last.log[j].post.contacts
                   /\ last.log[j].post.contacts[last.log[j].cid].email = last.log[j].row.email
                   /\ last.log[j].post.contacts[last.log[j].cid].dedupe_key
                          = last.log[j].row.dedupe_key

\* C9 witness: a batch whose first row failed and whose second row was
\* written, and is in the store after the commit
C9_Witness ==
    /\ last.op = "import"
    /\ Len(last.log) = 2
    /\ last.log[1].res = "error"
    /\ last.log[2].res = "inserted"
    /\ last.log[2].cid \in DOMAIN contacts
    /\ last.log[2].cid \notin DOMAIN last.pre.contacts

\* C10 (as claimed): a row that fails leaves the uncommitted store exactly as
\* it was before the row.
C10_FailedRowLeavesNoTrace ==
    last.op = "import" =>
        \A j \in 1..Len(last.log) :
            last.log[j].res = "error" => last.log[j].post = last.log[j].pre

\* what ensure_dedupe_index may make of the database D: E is its result
EnsureProtocol(D, E) ==
    IF D.index \/ IndexCreatable(D.contacts)
    THEN /\ E.swept = 0
         /\ TablesOf(E) = TablesOf(D)
         /\ E.backup = D.backup
         /\ E.index
    ELSE /\ E.swept = 1
         /\ TablesOf(E) = TablesOf(dedupe_database(D))
         /\ E.backup = dedupe_database(D).backup
         /\ E.index = IndexCreatable(E.contacts)

\* C11: ensure_dedupe_index does nothing but create the index when the
\* creation succeeds (no sweep, no contact deleted or changed); when the
\* creation fails it runs the sweep once and tries the creation once more,
\* and the index exists afterwards exactly if that second creation could
\* succeed.  Checked on every database the program calls it on at start-up,
\* and on what the start-up left behind.
C11_BoundedRetry ==
    /\ pc \in {"boot", "rerun"} =>
          EnsureProtocol(restore_from_backup_if_empty(DB),
                         ensure_dedupe_index(restore_from_backup_if_empty(DB)))
    /\ (last.op = "startup" /\ DOMAIN last.pre.contacts # {}) =>
          IF last.preIndex \/ IndexCreatable(last.pre.contacts)
          THEN last.swept = 0 /\ Tables = last.pre /\ index
          ELSE /\ last.swept = 1
               /\ index = IndexCreatable(contacts)
               /\ Tables = TablesOf(dedupe_database(
                       [contacts |-> last.pre.contacts, notes |-> last.pre.notes,
                        status_history |-> last.pre.status_history,
                        sales |-> last.pre.sales, index |-> FALSE,
                        backup |-> <<>>]))

\* C11 witness: at start-up the creation failed on stored duplicate keys, one
\* sweep deleted contacts and the second creation put the index in place
C11_Witness ==
    /\ last.op = "startup"
    /\ ~last.preIndex
    /\ ~IndexCreatable(last.pre.contacts)
    /\ last.swept = 1
    /\ DOMAIN contacts # DOMAIN last.pre.contacts
    /\ index

\* the last step was the sidebar sweep, run while the unique index existed on
\* a store in which no two contacts are duplicates of each other (no two
\* share a stored key, nor a key recomputed from their fields)
SweepWithoutDuplicates ==
    /\ last.op = "sweep"
    /\ last.preIndex
    /\ IndexCreatable(last.pre.contacts)
    /\ DupKeys(RecomputeKeys(last.pre.contacts)) = {}

\* C12 (as claimed): a sweep run while the index exists and no duplicates are
\* present returns zero, deletes no contact, changes no contact's dedupe key
\* and changes no owner of a Note, StatusChange or SaleLine.
C12_SweepNoOp ==
    SweepWithoutDuplicates =>
        /\ last.deleted = 0
        /\ DOMAIN contacts = DOMAIN last.pre.contacts
        /\ \A c \in DOMAIN contacts :
             contacts[c].dedupe_key = last.pre.contacts[c].dedupe_key
        /\ notes = last.pre.notes
        /\ status_history = last.pre.status_history
        /\ sales = last.pre.sales

\* C12 (amended): such a sweep returns zero, deletes no contact, changes no
\* field of a contact other than its dedupe key, and no child row; each
\* contact's key afterwards is the key recomputed from its fields, so a key
\* changes exactly where the stored key was missing or out of date.
C12_SweepOnlyRekeys ==
    SweepWithoutDuplicates =>
        /\ last.deleted = 0
        /\ DOMAIN contacts = DOMAIN last.pre.contacts
        /\ \A c \in DOMAIN contacts :
             /\ contacts[c] = [last.pre.contacts[c] EXCEPT
                                  !.dedupe_key = KeyOf(last.pre.contacts, c)]
             /\ (last.pre.contacts[c].dedupe_key = KeyOf(last.pre.contacts, c))
                   => contacts[c] = last.pre.contacts[c]
        /\ notes = last.pre.notes
        /\ status_history = last.pre.status_history
        /\ sales = last.pre.sales
        /\ index

\* C12 witness: such a sweep on a store of several contacts, one of which had
\* no stored key and got one
C12_Witness ==
    /\ SweepWithoutDuplicates
    /\ last.deleted = 0
    /\ Cardinality(DOMAIN contacts) >= 2
    /\ Len(notes) > 0
    /\ \E c \in DOMAIN contacts :
         last.pre.contacts[c].dedupe_key = EMPTY /\ contacts[c].dedupe_key # EMPTY
    /\ \E c \in DOMAIN contacts :
         last.pre.contacts[c].dedupe_key # EMPTY
         /\ contacts[c].dedupe_key = last.pre.contacts[c].dedupe_key

\* C13: the unique index is missing only inside a sweep: dedupe_database
\* returns with the index in place, whatever database it is run on, so the
\* program waits for the user with the index in place and every handler
\* starts with it.
C13_IndexBackAfterSweep ==
    /\ dedupe_database(DB).index
    /\ SweepRan => index
    /\ pc = "idle" => index
    /\ last.op \notin {"none", "startup"} => last.preIndex

\* C13 witness: the sidebar sweep ran on a store whose recomputed keys could
\* not all be in a unique index (the index had to be away while duplicates
\* were merged), and the index is there when the sweep has returned
C13_Witness ==
    /\ last.op = "sweep"
    /\ last.preIndex
    /\ ~IndexCreatable(RecomputeKeys(last.pre.contacts))
    /\ pc = "rerun"
    /\ index

\* k is the key the priority rule gives the five fields: the e-mail decides
\* if there is one, else the profile URL, else name and company, else no key
KeyFollowsPriority(first, lastn, company, email, profile_url, k) ==
    LET em == _norm_email(email)
        pr == _norm_profile(profile_url)
        fn == _norm_text(first)
        ln == _norm_text(lastn)
        co == _norm_company(company)
    IN  /\ em # EMPTY => k = EmailPrefix \o em
        /\ (em = EMPTY /\ pr # EMPTY) => k = ProfilePrefix \o pr
        /\ (em = EMPTY /\ pr = EMPTY /\ (fn # EMPTY \/ ln # EMPTY \/ co # EMPTY)) =>
              k = NamecoPrefix \o fn \o <<"|">> \o ln \o <<"|">> \o co
        /\ (em = EMPTY /\ pr = EMPTY /\ fn = EMPTY /\ ln = EMPTY /\ co = EMPTY) =>
              k = EMPTY

\* C14: compute_dedupe_key is first-match-wins: "email:" + normalized e-mail
\* whatever the other fields are; else "profile:" + normalized profile URL;
\* else "nameco:" + first + "|" + last + "|" + company (normalized) if one of
\* them is non-empty; else the empty key.  Checked for the key of every
\* stored contact and of every imported row.
C14_KeyPriority ==
    /\ \A c \in DOMAIN contacts :
          KeyFollowsPriority(contacts[c].first_name, contacts[c].last_name,
                             contacts[c].company, contacts[c].email,
                             contacts[c].profile_url, KeyOf(contacts, c))
    /\ last.op = "import" =>
          \A j \in 1..Len(last.log) :
              KeyFollowsPriority(last.log[j].row.first_name, last.log[j].row.last_name,
                                 last.log[j].row.company, last.log[j].row.email,
                                 last.log[j].row.profile_url, last.log[j].row.dedupe_key)

\* C14 witness: after an import the store holds a contact with e-mail and
\* profile URL keyed by its e-mail, one keyed by its profile URL, one keyed by
\* its name, and one without a key
C14_Witness ==
    /\ last.op = "import"
    /\ \A c \in DOMAIN contacts : contacts[c].dedupe_key = KeyOf(contacts, c)
    /\ \E c \in DOMAIN contacts :
          /\ contacts[c].email # EMPTY /\ contacts[c].profile_url # EMPTY
          /\ StartsWith(contacts[c].dedupe_key, EmailPrefix)
    /\ \E c \in DOMAIN contacts :
          /\ contacts[c].email = EMPTY /\ contacts[c].profile_url # EMPTY
          /\ StartsWith(contacts[c].dedupe_key, ProfilePrefix)
    /\ \E c \in DOMAIN contacts :
          /\ contacts[c].first_name # EMPTY
          /\ StartsWith(contacts[c].dedupe_key, NamecoPrefix)
    /\ \E c \in DOMAIN contacts : contacts[c].dedupe_key = EMPTY

\* the contacts of cs the e-mail of the prepared row p belongs to
EmailHits(cs, p) ==
    IF p.email = EMPTY THEN {} ELSE {c \in DOMAIN cs : cs[c].email = p.email}

\* the contacts of cs holding the profile URL of p, letter case ignored
ProfileHits(cs, p) ==
    IF p.profile_url = EMPTY THEN {}
    ELSE {c \in DOMAIN cs : cs[c].profile_url # EMPTY
                             /\ Lower(cs[c].profile_url) = Lower(p.profile_url)}

\* the contacts of cs holding the dedupe key of p
KeyHits(cs, p) ==
    IF p.dedupe_key = EMPTY THEN {} ELSE {c \in DOMAIN cs : cs[c].dedupe_key = p.dedupe_key}

\* C15: the matcher looks a row up by e-mail first, then by profile URL
\* (letter case ignored), then by dedupe key, and the first hit wins: if a
\* contact holds the row's e-mail the match is such a contact whoever holds
\* the row's profile URL or key; otherwise, if a contact holds the profile
\* URL, the match is such a contact whoever holds the key; otherwise a
\* holder of the key; there is no match only when all three lookups miss.
\* The row is then written to the match, or inserted when there is none.
C15_MatcherOrder ==
    last.op = "import" =>
        \A j \in 1..Len(last.log) :
            LET p == last.log[j].row
                cs == last.log[j].pre.contacts
                m == _find_existing_contact_id(cs, p.dedupe_key, p.email, p.profile_url)
            IN  /\ EmailHits(cs, p) # {} => m \in EmailHits(cs, p)
                /\ (EmailHits(cs, p) = {} /\ ProfileHits(cs, p) # {})
                      => m \in ProfileHits(cs, p)
                /\ (EmailHits(cs, p) = {} /\ ProfileHits(cs, p) = {} /\ KeyHits(cs, p) # {})
                      => m \in KeyHits(cs, p)
                /\ m = 0 <=> (EmailHits(cs, p) \cup ProfileHits(cs, p) \cup KeyHits(cs, p) = {})
                /\ last.log[j].res = "updated" => (m # 0 /\ last.log[j].cid = m)
                /\ last.log[j].res = "inserted" => (m = 0 /\ last.log[j].cid \notin DOMAIN cs)

\* C15 witness: in one batch, a row whose profile URL is held by one contact
\* and whose key by another (the match is the holder of the profile URL), and
\* a row whose e-mail is held by one contact and whose profile URL by another
\* (the match is the holder of the e-mail, which the row updated)
C15_Witness ==
    /\ last.op = "import"
    /\ Len(last.log) = 2
    /\ LET p == last.log[1].row
           cs == last.log[1].pre.contacts
       IN  /\ EmailHits(cs, p) = {}
           /\ ProfileHits(cs, p) # {}
           /\ KeyHits(cs, p) # {}
           /\ ProfileHits(cs, p) \cap KeyHits(cs, p) = {}
           /\ _find_existing_contact_id(cs, p.dedupe_key, p.email, p.profile_url)
                 \in ProfileHits(cs, p)
    /\ LET p == last.log[2].row
           cs == last.log[2].pre.contacts
       IN  /\ EmailHits(cs, p) # {}
           /\ ProfileHits(cs, p) # {}
           /\ EmailHits(cs, p) \cap ProfileHits(cs, p) = {}
           /\ last.log[2].res = "updated"
           /\ last.log[2].cid \in EmailHits(cs, p)

\* the contact the matcher finds for entry j of the import log; 0 for none
MatchOf(j) ==
    _find_existing_contact_id(last.log[j].pre.contacts, last.log[j].row.dedupe_key,
                              last.log[j].row.email, last.log[j].row.profile_url)

\* C16: when an imported row matches an existing contact, one StatusChange
\* (existing status, row status) for that contact is appended if and only if
\* the row carries a recognized pipeline status other than the existing one;
\* it is appended before the contact is updated, so it is there even when
\* the update then fails; a row with no status or an unrecognized one leaves
\* the contact's status as it is and appends no StatusChange.
C16_StatusChangeOnMatch ==
    last.op = "import" =>
        \A j \in 1..Len(last.log) :
            LET pre == last.log[j].pre
                post == last.log[j].post
                m == MatchOf(j)
                old == Strip(OrNew(pre.contacts[m].status))
                new == last.log[j].row.status_from_file
            IN  m # 0 =>
                  /\ new = normalize_status(last.raw[j].status)
                  /\ new \in PipelineSet \cup {EMPTY}
                  /\ (new # EMPTY /\ new # old) =>
                        post.status_history =
                            Append(pre.status_history,
                                   [contact_id |-> m, old_status |-> old, new_status |-> new])
                  /\ (new = EMPTY \/ new = old) =>
                        post.status_history = pre.status_history
                  /\ last.log[j].res = "updated" =>
                        OrNew(post.contacts[m].status) =
                            IF new # EMPTY THEN new ELSE OrNew(pre.contacts[m].status)
                  /\ last.log[j].res = "error" => post.contacts = pre.contacts

\* C16 witness: one batch in which a row with an unrecognized status matched
\* a contact (no StatusChange, status kept) and a row with a recognized,
\* different status matched a contact (one StatusChange, status overwritten)
C16_Witness ==
    /\ last.op = "import"
    /\ Len(last.log) = 2
    /\ MatchOf(1) # 0
    /\ last.raw[1].status # EMPTY
    /\ last.log[1].row.status_from_file = EMPTY
    /\ last.log[1].res = "updated"
    /\ last.log[1].post.status_history = last.log[1].pre.status_history
    /\ MatchOf(2) # 0
    /\ last.log[2].res = "updated"
    /\ Len(last.log[2].post.status_history) = Len(last.log[2].pre.status_history) + 1
    /\ contacts[MatchOf(2)].status = last.log[2].row.status_from_file

\* C17: an imported row that matches no contact inserts exactly one new
\* contact, whose status is the row's recognized status or "New" when the
\* row has none or an unrecognized one; every other contact stays as it is
\* and no StatusChange is appended for the creation.
C17_InsertOnNoMatch ==
    last.op = "import" =>
        \A j \in 1..Len(last.log) :
            LET pre == last.log[j].pre
                post == last.log[j].post
                cid == last.log[j].cid
                new == normalize_status(last.raw[j].status)
            IN  MatchOf(j) = 0 =>
                  /\ last.log[j].res = "inserted"
                  /\ cid \notin DOMAIN pre.contacts
                  /\ DOMAIN post.contacts = DOMAIN pre.contacts \cup {cid}
                  /\ \A c \in DOMAIN pre.contacts : post.contacts[c] = pre.contacts[c]
                  /\ post.contacts[cid].status = IF new # EMPTY THEN new ELSE StNew
                  /\ post.contacts[cid].status \in PipelineSet
                  /\ post.status_history = pre.status_history

\* C17 witness: one batch created a contact from a row with a status synonym
\* ("won deal", stored as "Won") and a contact from a row with an
\* unrecognized status (stored as "New"); status_history did not grow
C17_Witness ==
    /\ last.op = "import"
    /\ Len(last.log) = 2
    /\ last.log[1].res = "inserted"
    /\ last.log[2].res = "inserted"
    /\ \E j, k \in 1..2 :
          /\ last.raw[j].status = <<"w","o","n"," ","d","e","a","l">>
          /\ contacts[last.log[j].cid].status = StWon
          /\ last.raw[k].status = <<"t","b","d">>
          /\ contacts[last.log[k].cid].status = StNew
    /\ status_history = last.pre.status_history

\* the note bodies the imported rows carry
ImportNoteBodies == {Prepared[r].note_text : r \in DOMAIN Prepared} \ {EMPTY}

\* the notes of contact c in the table ns whose body is b
NotesWith(ns, c, b) == {i \in 1..Len(ns) : ns[i].contact_id = c /\ ns[i].body = b}

\* C18: an imported row with note text adds a Note to the contact it
\* resolved to only if that contact has no Note with the same sanitized
\* body, and then exactly one; a row without note text, and a failed row,
\* add none.  So importing rows again, in the same or a later file, does not
\* add their notes again: no contact ever has two notes with the body of an
\* imported row (in this model only imports write such bodies).
C18_NoDuplicateImportNote ==
    /\ last.op = "import" =>
        \A j \in 1..Len(last.log) :
            LET pre == last.log[j].pre
                post == last.log[j].post
                cid == last.log[j].cid
                body == last.log[j].row.note_text
            IN  /\ body = sanitize_note_text(last.raw[j].notes, TRUE)
                /\ (last.log[j].res = "error" \/ body = EMPTY) => post.notes = pre.notes
                /\ (last.log[j].res # "error" /\ body # EMPTY) =>
                      IF NotesWith(pre.notes, cid, body) # {}
                      THEN post.notes = pre.notes
                      ELSE /\ post.notes = Append(pre.notes, [contact_id |-> cid, body |-> body])
                           /\ Cardinality(NotesWith(post.notes, cid, body)) = 1
    /\ \A i, k \in 1..Len(notes) :
          (i < k /\ notes[i] = notes[k]) => notes[i].body \notin ImportNoteBodies

\* C18 witness: a file of two rows with note text, one of them carrying a
\* quoted e-mail thread that is cut off, is imported when its notes are
\* already there from an earlier import: both rows update their contact,
\* no note is added, and each contact has the row's note once
C18_Witness ==
    /\ last.op = "import"
    /\ Len(last.log) = 2
    /\ last.log[1].cid # last.log[2].cid
    /\ \E j \in 1..2 : last.log[j].row.note_text # last.raw[j].notes
    /\ \A j \in 1..2 :
          /\ last.log[j].res = "updated"
          /\ last.log[j].row.note_text # EMPTY
          /\ Cardinality(NotesWith(notes, last.log[j].cid, last.log[j].row.note_text)) = 1
    /\ notes = last.pre.notes

\* the two prepared rows or stored contacts are namesakes: the same
\* normalized first name, last name and company, not all three empty
Namesakes(x, y) ==
    /\ _norm_text(x.first_name) = _norm_text(y.first_name)
    /\ _norm_text(x.last_name) = _norm_text(y.last_name)
    /\ _norm_company(x.company) = _norm_company(y.company)
    /\ \/ _norm_text(x.first_name) # EMPTY
       \/ _norm_text(x.last_name) # EMPTY
       \/ _norm_company(x.company) # EMPTY

\* the two carry different e-mails, neither of them empty
DifferentEmails(x, y) ==
    /\ _norm_email(x.email) # EMPTY
    /\ _norm_email(y.email) # EMPTY
    /\ _norm_email(x.email) # _norm_email(y.email)

\* the contact that holds what contact c of the store cs0 held, once a sweep
\* has left the contacts cs
SurvivorOf(cs0, cs, c) == IF c \in DOMAIN cs THEN c ELSE MinOf(GroupOf(cs0, c))

\* C19: two rows of one file with different e-mails, no profile URL and the
\* same normalized name and company resolve to two different contacts, each
\* holding its own e-mail after the import; and a sweep never merges two
\* contacts with different e-mails, namesakes or not: both are still
\* represented by different contacts with their own e-mails.
C19_NamesakesStaySeparate ==
    /\ last.op = "import" =>
        \A j, k \in 1..Len(last.log) :
            LET x == last.log[j].row
                y == last.log[k].row
            IN  (/\ j < k
                 /\ Namesakes(x, y)
                 /\ DifferentEmails(x, y)
                 /\ x.profile_url = EMPTY
                 /\ y.profile_url = EMPTY) =>
                    /\ last.log[j].res # "error"
                    /\ last.log[k].res # "error"
                    /\ last.log[j].cid # last.log[k].cid
                    /\ contacts[last.log[j].cid].email = x.email
                    /\ contacts[last.log[k].cid].email = y.email
    /\ SweepRan =>
        \A a, b \in DOMAIN last.pre.contacts :
            DifferentEmails(last.pre.contacts[a], last.pre.contacts[b]) =>
                /\ SurvivorOf(last.pre.contacts, contacts, a)
                      # SurvivorOf(last.pre.contacts, contacts, b)
                /\ _norm_email(contacts[SurvivorOf(last.pre.contacts, contacts, a)].email)
                      = _norm_email(last.pre.contacts[a].email)
                /\ _norm_email(contacts[SurvivorOf(last.pre.contacts, contacts, b)].email)
                      = _norm_email(last.pre.contacts[b].email)

\* C19 witness: the two namesakes imported from one file are both in the
\* store, untouched, after a sweep that came later
C19_Witness ==
    /\ last.op = "sweep"
    /\ \E a, b \in DOMAIN contacts \cap DOMAIN last.pre.contacts :
          /\ a # b
          /\ contacts[a].email = Prepared[RowJaneWork].email
          /\ contacts[b].email = Prepared[RowJaneHome].email
          /\ Namesakes(contacts[a], contacts[b])
          /\ contacts[a] = last.pre.contacts[a]
          /\ contacts[b] = last.pre.contacts[b]

\* C20: on a store that started empty, after any sequence of imports, manual
\* adds, edits, sweeps and the other handlers, every stored e-mail is in
\* normal form and no two contacts hold the same non-empty e-mail, letter
\* case and surrounding blanks ignored; and the e-mail is what the matcher
\* goes by first: a row or form whose e-mail a contact holds is written to
\* that contact, whatever its profile URL or key would match.
C20_UniqueEmailFromEmpty ==
    fresh =>
        /\ \A c \in DOMAIN contacts : contacts[c].email = _norm_email(contacts[c].email)
        /\ \A a, b \in DOMAIN contacts :
              (a # b /\ contacts[a].email # EMPTY)
                  => SameEmailAs(contacts[a].email) # SameEmailAs(contacts[b].email)
        /\ last.op = "import" =>
              \A j \in 1..Len(last.log) :
                  EmailHits(last.log[j].pre.contacts, last.log[j].row) # {} =>
                      /\ last.log[j].res = "updated"
                      /\ EmailHits(last.log[j].pre.contacts, last.log[j].row)
                            = {last.log[j].cid}
        /\ last.op = "add" =>
              \A c \in DOMAIN last.pre.contacts :
                  (/\ _norm_email(last.form.email) # EMPTY
                   /\ last.pre.contacts[c].email = _norm_email(last.form.email)) =>
                      /\ last.res = "updated"
                      /\ last.cid = c

\* C20 witness: on a store that started empty, an import met a contact
\* holding the e-mail of a row whose profile URL another contact held; the
\* row, whose e-mail was written with surrounding blanks, updated the holder
\* of the e-mail, who is the only contact with that e-mail afterwards
C20_Witness ==
    /\ fresh
    /\ last.op = "import"
    /\ \E j \in 1..Len(last.log) :
          /\ EmailHits(last.log[j].pre.contacts, last.log[j].row) # {}
          /\ ProfileHits(last.log[j].pre.contacts, last.log[j].row) # {}
          /\ EmailHits(last.log[j].pre.contacts, last.log[j].row)
                \cap ProfileHits(last.log[j].pre.contacts, last.log[j].row) = {}
          /\ last.log[j].res = "updated"
          /\ last.raw[j].email # last.log[j].row.email
          /\ Cardinality({c \in DOMAIN contacts :
                             contacts[c].email = last.log[j].row.email}) = 1
    /\ Cardinality(DOMAIN contacts) >= 2

\* the contacts of cs a sweep has to remove: the members of a group sharing a
\* recomputed non-empty key other than the group's smallest id
LosersOf(cs) ==
    LET keys == [c \in DOMAIN cs |-> KeyOf(cs, c)]
    IN  {c \in DOMAIN cs :
            keys[c] # EMPTY /\ \E d \in DOMAIN cs : d < c /\ keys[d] = keys[c]}

\* the sweep that took the contacts cs0, left the contacts cs and returned
\* deleted removed the losers of cs0 and returned their number
SweepCountIs(deleted, cs, cs0) ==
    /\ deleted = Cardinality(DOMAIN cs0) - Cardinality(DOMAIN cs)
    /\ DOMAIN cs0 \ DOMAIN cs = LosersOf(cs0)
    /\ DOMAIN cs \subseteq DOMAIN cs0

\* SweepCountIs for the result R of dedupe_database on the contacts cs0
SweepResultCounts(R, cs0) == SweepCountIs(R.deleted, R.contacts, cs0)

\* C21: dedupe_database returns the number of contacts it removed (contacts
\* before minus contacts after), and the contacts it removes are exactly the
\* members other than the smallest id of the groups sharing a recomputed
\* non-empty key.  Stated for dedupe_database run on every database the
\* user can sweep, and for what the sidebar sweep left and reported.
C21_SweepReturnsRemoved ==
    /\ pc = "idle" => SweepResultCounts(dedupe_database(DB), contacts)
    /\ last.op = "sweep" => SweepCountIs(last.deleted, contacts, last.pre.contacts)

\* C21 witness: the sidebar sweep returned 2 after merging one group of
\* three contacts, and kept a contact that was in no group
C21_Witness ==
    /\ last.op = "sweep"
    /\ last.deleted = 2
    /\ \E c \in DOMAIN last.pre.contacts : Cardinality(GroupOf(last.pre.contacts, c)) = 3
    /\ \E c \in DOMAIN contacts : Cardinality(GroupOf(last.pre.contacts, c)) = 1
    /\ Cardinality(DOMAIN contacts) = Cardinality(DOMAIN last.pre.contacts) - 2

\* C22: every contact's status is one of the ten pipeline statuses, a status
\* never written (NULL) reading as "New" as the program reads it; on a store
\* that started empty no status is NULL either; a handler leaves a contact
\* with a pipeline status or with the status it had; and an imported row
\* never stores a status that normalize_status does not recognize.
C22_StatusInPipeline ==
    /\ \A c \in DOMAIN contacts : OrNew(contacts[c].status) \in PipelineSet
    /\ fresh => \A c \in DOMAIN contacts : contacts[c].status \in PipelineSet
    /\ last.op \in {"import", "add", "move", "edit"} =>
          \A c \in DOMAIN contacts :
              \/ contacts[c].status \in PipelineSet
              \/ c \in DOMAIN last.pre.contacts
                  /\ contacts[c].status = last.pre.contacts[c].status
    /\ last.op = "import" =>
          \A j \in 1..Len(last.log) :
              (last.log[j].res # "error"
               /\ Strip(last.raw[j].status) # EMPTY
               /\ normalize_status(last.raw[j].status) = EMPTY) =>
                  /\ last.log[j].post.contacts[last.log[j].cid].status \in PipelineSet
                  /\ last.log[j].post.contacts[last.log[j].cid].status
                        # Strip(last.raw[j].status)

\* C22 witness: an imported row with the unrecognized status "tbd" updated a
\* contact, which kept a pipeline status, while another row of the file
\* stored the status its synonym stands for
C22_Witness ==
    /\ last.op = "import"
    /\ \E j, k \in 1..Len(last.log) :
          /\ last.raw[j].status = <<"t","b","d">>
          /\ last.log[j].res = "updated"
          /\ contacts[last.log[j].cid].status \in PipelineSet
          /\ last.raw[k].status = <<"w","o","n"," ","d","e","a","l">>
          /\ last.log[k].res # "error"
          /\ contacts[last.log[k].cid].status = StWon

\* the profile URL normal form as claimed: lower case, "https://" in front
\* unless a scheme is there, query string and fragment cut, one trailing
\* slash dropped
ClaimedProfile(v) ==
    LET s == Lower(Strip(v))
        withScheme == IF StartsWith(s, HttpPrefix) \/ StartsWith(s, HttpsPrefix)
                      THEN s ELSE HttpsPrefix \o LStripChar(s, "/")
        cut == StripQuery(withScheme)
    IN  IF s = EMPTY THEN EMPTY
        ELSE IF cut # EMPTY /\ cut[Len(cut)] = "/" THEN SubSeq(cut, 1, Len(cut) - 1)
        ELSE cut

\* C23 (as claimed): the normal form of every profile URL the program
\* normalizes (of the imported rows and of the stored contacts) is the
\* claimed one, so URLs that differ only in letter case, the scheme's
\* included, in query or fragment, or in one trailing slash get one normal
\* form.
C23_ProfileNormalForm ==
    /\ \A c \in DOMAIN contacts :
          _norm_profile(contacts[c].profile_url) = ClaimedProfile(contacts[c].profile_url)
    /\ last.op = "import" =>
          \A j \in 1..Len(last.log) :
              /\ _norm_profile(last.raw[j].profile_url)
                    = ClaimedProfile(last.raw[j].profile_url)
              /\ \A c \in DOMAIN last.log[j].pre.contacts :
                    (/\ last.raw[j].profile_url # EMPTY
                     /\ ClaimedProfile(last.raw[j].profile_url)
                           = ClaimedProfile(last.log[j].pre.contacts[c].profile_url))
                        => _norm_profile(last.raw[j].profile_url)
                             = _norm_profile(last.log[j].pre.contacts[c].profile_url)

\* the key compute_dedupe_key gives for the stored fields of a contact
StoredKey(x) ==
    compute_dedupe_key(x.first_name, x.last_name, x.company, x.email, x.profile_url)

\* every contact of cs carries the key of its stored fields
KeysConsistent(cs) == \A c \in DOMAIN cs : cs[c].dedupe_key = StoredKey(cs[c])

\* C24 (as claimed): after any import, manual add, editor save or sweep,
\* every contact's stored key is compute_dedupe_key of its stored first
\* name, last name, company, e-mail and profile URL (the empty key stored
\* as NULL).
C24_KeyConsistency ==
    last.op \in {"import", "add", "edit", "sweep"} => KeysConsistent(contacts)

\* C24 (amended): a stored key is never stale: it is the key of the stored
\* fields, or NULL on a contact that predates the keys and was not written
\* since. After a sweep (from the menu or run by ensure_dedupe_index) every
\* contact carries the key of its stored fields, and so does every contact
\* of a store that started empty. An import, manual add or editor save
\* leaves every contact it wrote with the key of its stored fields and every
\* other contact as it was; a matched import row leaves its contact with the
\* row's values and the key computed from those values.
C24_KeyConsistencyOfWritten ==
    /\ \A c \in DOMAIN contacts :
          contacts[c].dedupe_key \in {EMPTY, StoredKey(contacts[c])}
    /\ fresh => KeysConsistent(contacts)
    /\ last.op = "sweep" => KeysConsistent(contacts)
    /\ (last.op = "startup" /\ last.swept > 0) => KeysConsistent(contacts)
    /\ last.op \in {"import", "add", "edit"} =>
          /\ \A c \in DOMAIN contacts :
                \/ contacts[c].dedupe_key = StoredKey(contacts[c])
                \/ c \in DOMAIN last.pre.contacts /\ contacts[c] = last.pre.contacts[c]
          /\ KeysConsistent(last.pre.contacts) => KeysConsistent(contacts)
    /\ last.op = "import" =>
          \A j \in 1..Len(last.log) :
              last.log[j].res = "updated" =>
                  LET x == last.log[j].post.contacts[last.log[j].cid]
                      p == last.log[j].row
                  IN  /\ x.first_name = p.first_name
                      /\ x.last_name = p.last_name
                      /\ x.company = p.company
                      /\ x.email = p.email
                      /\ x.profile_url = p.profile_url
                      /\ x.dedupe_key = p.dedupe_key
                      /\ x.dedupe_key = StoredKey(x)

\* an import updated a contact and changed its key, and an editor save or a
\* manual add would do as well
C24_Witness ==
    /\ last.op = "import"
    /\ \E j \in 1..Len(last.log) :
          /\ last.log[j].res = "updated"
          /\ last.log[j].pre.contacts[last.log[j].cid].dedupe_key # last.log[j].row.dedupe_key
          /\ last.log[j].pre.contacts[last.log[j].cid].dedupe_key # EMPTY
          /\ last.log[j].cid \in DOMAIN contacts
          /\ contacts[last.log[j].cid].dedupe_key = last.log[j].row.dedupe_key

\* the sale lines of an editor form that count: product chosen, quantity > 0
ValidSaleLines(lines) == SelectSeq(lines, LAMBDA ln : ln.product # "" /\ ln.qty > 0)

\* the editor save just made asks to move its contact from non-Won to Won
BecomingWon ==
    /\ Strip(OrNew(last.pre.contacts[last.cid].status)) # StWon
    /\ Strip(OrNew(last.form.status)) = StWon

\* C25: an editor save that would move a contact from non-Won to Won with
\* no valid sale line writes nothing (no status change, no contact update,
\* no sale line); a save records sale lines exactly when it moves the
\* contact from non-Won to Won, and then it records the valid lines entered.
C25_WonNeedsSaleLines ==
    last.op = "edit" =>
        /\ (BecomingWon /\ ValidSaleLines(last.lines) = <<>>) =>
              /\ last.res = "stopped"
              /\ Tables = last.pre
              /\ index = last.preIndex
        /\ last.res = "stopped" => (BecomingWon /\ ValidSaleLines(last.lines) = <<>>)
        /\ (sales # last.pre.sales) <=> (last.res = "saved" /\ BecomingWon)
        /\ (last.res = "saved" /\ BecomingWon) =>
              /\ ValidSaleLines(last.lines) # <<>>
              /\ contacts[last.cid].status = StWon
              /\ sales = last.pre.sales \o
                    [i \in 1..Len(ValidSaleLines(last.lines)) |->
                        [contact_id |-> last.cid,
                         product |-> ValidSaleLines(last.lines)[i].product,
                         qty |-> ValidSaleLines(last.lines)[i].qty]]
        /\ (last.res = "saved" /\ ~BecomingWon) => sales = last.pre.sales

\* a save to Won with a changed e-mail and only invalid sale lines entered
\* was stopped, and the store has sale lines from before
C25_Witness ==
    /\ last.op = "edit"
    /\ last.res = "stopped"
    /\ last.lines # <<>>
    /\ last.form.email # last.pre.contacts[last.cid].email
    /\ contacts[last.cid].status # StWon
    /\ Tables = last.pre

\* a save to Won with a valid sale line recorded it
C25_WitnessSaved ==
    /\ last.op = "edit"
    /\ last.res = "saved"
    /\ BecomingWon
    /\ Len(sales) = Len(last.pre.sales) + 1

\* the run recorded in attempt is a run of the login
LoginRan == attempt.step \in {"Continue", "Verify", "Start over", "none"}

\* C26: a session becomes authed only in a run in which the password step
\* had already succeeded, the code issued was at most OTP_TTL_SECONDS old
\* and the code entered is the code issued; the password step succeeds only
\* on the right password and issues a code; a run that finds the code
\* expired clears all pending login state, so the password step has to be
\* repeated.
C26_LoginNeedsFreshCode ==
    /\ (Authed(ss) /\ ~Authed(attempt.pre)) =>
          /\ attempt.step = "Verify"
          /\ PwOk(attempt.pre)
          /\ "otp_time" \in DOMAIN attempt.pre /\ "otp_code" \in DOMAIN attempt.pre
          /\ attempt.at - attempt.pre["otp_time"] <= OTP_TTL_SECONDS
          /\ Strip(attempt.ev.code_in) = attempt.pre["otp_code"]
    /\ (PwOk(ss) /\ ~PwOk(attempt.pre)) =>
          /\ attempt.step = "Continue"
          /\ attempt.ev.pwd = DEFAULT_PASSWORD
          /\ ss["otp_code"] = attempt.ev.code
          /\ ss["otp_time"] = attempt.at
    /\ PwOk(ss) =>
          /\ "otp_time" \in DOMAIN ss /\ "otp_code" \in DOMAIN ss
          /\ ss["otp_code"] \in OtpCodes
          /\ ~Authed(ss)
    /\ (LoginRan /\ PwOk(attempt.pre)
            /\ attempt.at - attempt.pre["otp_time"] > OTP_TTL_SECONDS) =>
          /\ DOMAIN ss \cap LoginKeys = {}
          /\ ~Authed(ss)
    /\ pc # "boot" => Authed(ss)

\* the code issued was entered when it was exactly OTP_TTL_SECONDS old, and
\* the session is authed
C26_Witness ==
    /\ attempt.step = "Verify"
    /\ PwOk(attempt.pre)
    /\ attempt.at - attempt.pre["otp_time"] = OTP_TTL_SECONDS
    /\ Authed(ss)

\* the code issued was entered one second later than that, and the login
\* starts over
C26_WitnessExpired ==
    /\ attempt.step = "Verify"
    /\ PwOk(attempt.pre)
    /\ attempt.at - attempt.pre["otp_time"] = OTP_TTL_SECONDS + 1
    /\ Strip(attempt.ev.code_in) = attempt.pre["otp_code"]
    /\ ~Authed(ss)
    /\ ~PwOk(ss)

\* the import just made, made once more: the script runs again (start-up
\* calls of main) and upsert_contacts takes the same file
Reimport ==
    upsert_contacts(ensure_dedupe_index(restore_from_backup_if_empty(DB)),
                    [i \in 1..Len(last.raw) |-> Prepared[last.raw[i]]])

\* every row of the file just imported has a dedupe key
KeyableBatch == \A i \in 1..Len(last.raw) : Prepared[last.raw[i]].dedupe_key # EMPTY

\* the second import R left contacts, notes and status changes as they are
ReimportChangedNothing(R) ==
    /\ R.contacts = contacts
    /\ R.notes = notes
    /\ R.status_history = status_history

NoRowFailed(log) == \A j \in 1..Len(log) : log[j].res # "error"

\* the rows of the import log went to contacts different from each other
RowsApart(log) ==
    \A j, k \in 1..Len(log) : (j # k) => log[j].cid # log[k].cid

\* the second import R of a file whose rows went to different contacts
\* without a failure created no contact and no note and left every contact
\* as it was; it kept the status changes there were and, unless one of its
\* rows failed, created none
ReimportOfRowsApart(R) ==
    /\ R.contacts = contacts
    /\ R.notes = notes
    /\ Len(R.status_history) >= Len(status_history)
    /\ SubSeq(R.status_history, 1, Len(status_history)) = status_history
    /\ NoRowFailed(R.log) =>
          /\ R.status_history = status_history
          /\ \A j \in 1..Len(R.log) :
                R.log[j].res = "updated" /\ R.log[j].cid = last.log[j].cid

C27_WitnessRestated ==
    /\ last.op = "import"
    /\ KeyableBatch
    /\ last.pre.contacts = <<>>
    /\ NoRowFailed(last.log)
    /\ NoRowFailed(Reimport.log)
    /\ Reimport.contacts = contacts
    /\ Len(Reimport.status_history) = Len(status_history) + 2

\* the positions of the status changes of contact c in table h
ChangesOf(h, c) == {i \in 1..Len(h) : h[i].contact_id = c}

\* in the store cs with status changes h, every contact that owns a status
\* change has the new_status of its newest one as its status
AuditAgrees(cs, h) ==
    \A c \in DOMAIN cs :
        ChangesOf(h, c) # {} => h[MaxOf(ChangesOf(h, c))].new_status = OrNew(cs[c].status)

\* C28 (as claimed): after any sequence of imports (rows skipped on error
\* included), status moves, editor saves, manual adds and sweeps, every
\* contact that owns a status change has the new_status of the one appended
\* last as its current status.
C28_AuditTrailAgrees == AuditAgrees(contacts, status_history)

\* the audit trail agreed before the last step
AuditAgreed == AuditAgrees(last.pre.contacts, last.pre.status_history)

\* C28, step by step: a manual add, an import, a sweep made on a store whose
\* audit trail agrees leaves it agreeing (each of the three is violated: the
\* add form updates a found contact's status without a status change, a
\* failed import row leaves its status change behind, and a merge gives the
\* winner the losers' status changes but not their status)
C28_AfterManualAdd ==
    (last.op = "add" /\ AuditAgreed) => AuditAgrees(contacts, status_history)

C28_AfterImport ==
    (last.op = "import" /\ AuditAgreed) => AuditAgrees(contacts, status_history)

C28_AfterSweep ==
    (last.op = "sweep" /\ AuditAgreed) => AuditAgrees(contacts, status_history)

\* a status move, an editor save, a delete, a note and an import without a
\* failed row keep the agreement
C28_KeptByOtherSteps ==
    (/\ \/ last.op \in {"move", "edit", "delete", "note"}
        \/ last.op = "import" /\ NoRowFailed(last.log)
     /\ AuditAgreed)
        => AuditAgrees(contacts, status_history)

\* C29 (as claimed): a contact the user deleted stays deleted through any
\* later start-ups (init_db, restore_from_backup_if_empty,
\* ensure_dedupe_index), backups and sweeps, also when it was the last
\* contact of the store: a delete leaves the contact out of the table, and
\* a start-up or a sweep puts no contact into the table that was not in it
\* before the step.
C29_DeletedStaysDeleted ==
    /\ last.op = "delete" => last.cid \notin DOMAIN contacts
    /\ last.op \in {"startup", "sweep"} =>
          DOMAIN contacts \subseteq DOMAIN last.pre.contacts

\* a start-up or sweep on a store that holds a contact never adds one (the
\* part of C29 that holds: a deleted contact that was not the last one)
C29_StaysDeletedWhileOthersRemain ==
    (last.op \in {"startup", "sweep"} /\ DOMAIN last.pre.contacts # {}) =>
        DOMAIN contacts \subseteq DOMAIN last.pre.contacts

\* every row of the child table rows belongs to a contact of cs
Owned(rows, cs) == \A i \in 1..Len(rows) : rows[i].contact_id \in DOMAIN cs

\* C30: after any sequence of imports, manual adds, notes and sales added,
\* sweeps and deletes, every note, status change and sale line refers to a
\* contact that exists.
C30_ReferentialIntegrity ==
    /\ Owned(notes, contacts)
    /\ Owned(status_history, contacts)
    /\ Owned(sales, contacts)

\* a contact that owned notes and status changes was deleted while other
\* contacts keep theirs
C30_Witness ==
    /\ last.op = "delete"
    /\ OwnedBy(last.pre.notes, last.cid) # {}
    /\ OwnedBy(last.pre.status_history, last.cid) # {}
    /\ notes # <<>>
    /\ status_history # <<>>
    /\ Len(notes) < Len(last.pre.notes)

\* a sweep deleted a contact that owned notes, and the notes are the winner's
C30_WitnessSweep ==
    /\ last.op \in {"sweep", "startup"}
    /\ \E c \in DOMAIN last.pre.contacts \ DOMAIN contacts :
          OwnedBy(last.pre.notes, c) # {}
    /\ Len(notes) = Len(last.pre.notes)

====
